---------------------------- MODULE Spec2Model ----------------------------
(***************************************************************************)
(* Model of the query-routing and aggregation engine of chat/views.py:     *)
(* the attribute extractors, the corpus scanner (_qdrant_scroll_all), the  *)
(* aggregation engine (_compute_salary_stats_from_points) and the answer   *)
(* synthesis of api_ask.                                                   *)
(*                                                                         *)
(* Text is modelled as a sequence of one-character strings; numbers are    *)
(* non-negative integers (the fractional part of the salary pattern is     *)
(* never exercised because "." is not used inside numeric literals), and   *)
(* the float quotient sum/count is kept as a reduced fraction.             *)
(***************************************************************************)
EXTENDS Integers, Sequences, FiniteSets, TLC

(***************************************************************************)
(* Bounds of the model.                                                    *)
(***************************************************************************)
MaxPoints == 3

MaxCorpus == 3

MaxBatch == 2

MaxRequests == 3

MaxBudget == 3

MaxWords == 3

MaxEvaluations == 2

(***************************************************************************)
(* Python values found in a JSON payload: a key may be absent, or hold     *)
(* null, a string or a number.                                             *)
(***************************************************************************)
Absent == [tag |-> "absent", s |-> <<>>, n |-> 0]

PyNone == [tag |-> "none", s |-> <<>>, n |-> 0]

Str(chars) == [tag |-> "str", s |-> chars, n |-> 0]

Num(k) == [tag |-> "num", s |-> <<>>, n |-> k]

DigitChars == <<"0", "1", "2", "3", "4", "5", "6", "7", "8", "9">>

IsDigit(c) == \E d \in 1..10 : DigitChars[d] = c

DigitVal(c) == (CHOOSE d \in 1..10 : DigitChars[d] = c) - 1

RECURSIVE IntToStr(_)
\* str(n) of a non-negative int
IntToStr(k) ==
    IF k < 10 THEN <<DigitChars[k + 1]>>
    ELSE IntToStr(k \div 10) \o <<DigitChars[(k % 10) + 1]>>

RECURSIVE DigitsToInt(_)
DigitsToInt(chars) ==
    IF chars = <<>> THEN 0
    ELSE 10 * DigitsToInt(SubSeq(chars, 1, Len(chars) - 1)) + DigitVal(chars[Len(chars)])

\* str(v) for a payload value that is present
PyStr(v) ==
    CASE v.tag = "str" -> v.s
      [] v.tag = "num" -> IntToStr(v.n)
      [] OTHER -> <<"N", "o", "n", "e">>

IsSpace(c) == c \in {" ", "\n", "\t"}

RECURSIVE LStrip(_)
LStrip(chars) ==
    IF chars # <<>> /\ IsSpace(chars[1]) THEN LStrip(Tail(chars)) ELSE chars

RECURSIVE RStrip(_)
RStrip(chars) ==
    IF chars # <<>> /\ IsSpace(chars[Len(chars)])
    THEN RStrip(SubSeq(chars, 1, Len(chars) - 1))
    ELSE chars

\* str.strip()
Strip(chars) == RStrip(LStrip(chars))

\* str.replace(",", "")
RemoveCommas(chars) == SelectSeq(chars, LAMBDA c : c # ",")

\* float(text): the parsed number, or a failure (ValueError)
PyFloat(chars) ==
    LET t == Strip(chars)
    IN  IF t # <<>> /\ \A j \in 1..Len(t) : IsDigit(t[j])
        THEN [ok |-> TRUE, v |-> DigitsToInt(t)]
        ELSE [ok |-> FALSE, v |-> 0]

\* Python truthiness of a payload value (absent keys read as None)
Truthy(v) ==
    CASE v.tag = "str" -> v.s # <<>>
      [] v.tag = "num" -> v.n # 0
      [] OTHER -> FALSE

(***************************************************************************)
(* Payloads: a mapping from the keys the extractors read to values.        *)
(***************************************************************************)
EmployeeKeys == <<"EMPLOYEEID", "employeeid", "employee_id", "EmployeeId">>

SalaryKeys == <<"BASICSALARY", "basicSalary", "SALARY", "salary">>

NameKeys == <<"EMPLOYEENAME", "employee_name", "name", "EmployeeName">>

Range(f) == {f[x] : x \in DOMAIN f}

PayloadKeys == Range(EmployeeKeys) \cup Range(SalaryKeys) \cup Range(NameKeys) \cup {"prompt"}

\* dict.get(key)
Get(payload, key) == IF payload[key].tag = "absent" THEN PyNone ELSE payload[key]

\* key in dict
Has(payload, key) == payload[key].tag # "absent"

MkPayload(assign) ==
    [k \in PayloadKeys |-> IF k \in DOMAIN assign THEN assign[k] ELSE Absent]

EmptyPayload == [k \in PayloadKeys |-> Absent]

NoStr == [has |-> FALSE, s |-> <<>>]

SomeStr(chars) == [has |-> TRUE, s |-> chars]

RECURSIVE EmployeeKeyFrom(_, _)
EmployeeKeyFrom(payload, j) ==
    IF j > Len(EmployeeKeys) THEN NoStr
    ELSE LET v == Get(payload, EmployeeKeys[j])
         IN  IF v.tag # "none" /\ Strip(PyStr(v)) # <<>>
             THEN SomeStr(Strip(PyStr(v)))
             ELSE EmployeeKeyFrom(payload, j + 1)

\* _employee_key(payload)
EmployeeKey(payload) == EmployeeKeyFrom(payload, 1)

(***************************************************************************)
(* The regular expressions on the free-text field.                         *)
(***************************************************************************)
LowerLetters == <<"a", "b", "c", "d", "e", "f", "g", "h", "i", "j", "k", "l", "m", "n", "o", "p", "q", "r", "s", "t", "u", "v", "w", "x", "y", "z">>

UpperLetters == <<"A", "B", "C", "D", "E", "F", "G", "H", "I", "J", "K", "L", "M", "N", "O", "P", "Q", "R", "S", "T", "U", "V", "W", "X", "Y", "Z">>

UpperOf(c) ==
    IF \E k \in 1..26 : LowerLetters[k] = c
    THEN UpperLetters[CHOOSE k \in 1..26 : LowerLetters[k] = c]
    ELSE c

LowerOf(c) ==
    IF \E k \in 1..26 : UpperLetters[k] = c
    THEN LowerLetters[CHOOSE k \in 1..26 : UpperLetters[k] = c]
    ELSE c

\* str.lower()
Lower(chars) == [j \in 1..Len(chars) |-> LowerOf(chars[j])]

\* word in text
Contains(text, word) ==
    \E j \in 1..(Len(text) - Len(word) + 1) : SubSeq(text, j, j + Len(word) - 1) = word

IsWordChar(c) == c \notin {" ", "\n", "\t", ":", "|", ",", "-", ".", "?"}

\* \b between positions j-1 and j of text
Boundary(text, j) ==
    LET before == j > 1 /\ IsWordChar(text[j - 1])
        after == j <= Len(text) /\ IsWordChar(text[j])
    IN  before # after

\* the literal word matches at position j, ignoring case
MatchesWordAt(text, j, word) ==
    /\ j + Len(word) - 1 <= Len(text)
    /\ \A k \in 1..Len(word) : UpperOf(text[j + k - 1]) = word[k]

RECURSIVE SkipSpaces(_, _)
SkipSpaces(text, j) ==
    IF j <= Len(text) /\ IsSpace(text[j]) THEN SkipSpaces(text, j + 1) ELSE j

RECURSIVE DigitsEnd(_, _)
\* the position after the longest run of digits starting at j
DigitsEnd(text, j) ==
    IF j <= Len(text) /\ IsDigit(text[j]) THEN DigitsEnd(text, j + 1) ELSE j

BASICSALARY == <<"B", "A", "S", "I", "C", "S", "A", "L", "A", "R", "Y">>

EMPLOYEENAME == <<"E", "M", "P", "L", "O", "Y", "E", "E", "N", "A", "M", "E">>

\* r"\bBASICSALARY\s*:\s*([0-9]+(?:\.[0-9]+)?)\b" tried at position j:
\* a run of digits is a run of word characters, so \b holds after it only at
\* the end of the whole run
SalaryReAt(text, j) ==
    IF ~(Boundary(text, j) /\ MatchesWordAt(text, j, BASICSALARY))
    THEN [ok |-> FALSE, g |-> <<>>]
    ELSE LET c == SkipSpaces(text, j + Len(BASICSALARY))
         IN  IF ~(c <= Len(text) /\ text[c] = ":")
             THEN [ok |-> FALSE, g |-> <<>>]
             ELSE LET d == SkipSpaces(text, c + 1)
                      e == DigitsEnd(text, d)
                  IN  IF e > d /\ Boundary(text, e)
                      THEN [ok |-> TRUE, g |-> SubSeq(text, d, e - 1)]
                      ELSE [ok |-> FALSE, g |-> <<>>]

\* _salary_re.search(text): the first capture group of the leftmost match
SalaryReSearch(text) ==
    LET hits == {j \in 1..Len(text) : SalaryReAt(text, j).ok}
    IN  IF hits = {} THEN [ok |-> FALSE, g |-> <<>>]
        ELSE SalaryReAt(text, CHOOSE j \in hits : \A k \in hits : j <= k)

RECURSIVE UntilBar(_, _)
\* the position after the longest run of non-"|" characters starting at j
UntilBar(text, j) ==
    IF j <= Len(text) /\ text[j] # "|" THEN UntilBar(text, j + 1) ELSE j

\* r"\bEMPLOYEENAME\s*:\s*([^|]+)" tried at position j; \s* may give
\* spaces back to the capture group when nothing else follows them
NameReAt(text, j) ==
    IF ~(Boundary(text, j) /\ MatchesWordAt(text, j, EMPLOYEENAME))
    THEN [ok |-> FALSE, g |-> <<>>]
    ELSE LET c == SkipSpaces(text, j + Len(EMPLOYEENAME))
         IN  IF ~(c <= Len(text) /\ text[c] = ":")
             THEN [ok |-> FALSE, g |-> <<>>]
             ELSE LET d == SkipSpaces(text, c + 1)
                      e == UntilBar(text, d)
                  IN  IF e > d THEN [ok |-> TRUE, g |-> SubSeq(text, d, e - 1)]
                      ELSE IF d > c + 1 THEN [ok |-> TRUE, g |-> SubSeq(text, d - 1, d - 1)]
                      ELSE [ok |-> FALSE, g |-> <<>>]

\* _name_re.search(text)
NameReSearch(text) ==
    LET hits == {j \in 1..Len(text) : NameReAt(text, j).ok}
    IN  IF hits = {} THEN [ok |-> FALSE, g |-> <<>>]
        ELSE NameReAt(text, CHOOSE j \in hits : \A k \in hits : j <= k)

(***************************************************************************)
(* _extract_salary and _extract_name.  A result is a value, None, or the   *)
(* exception raised by re.search on a free-text field that is no string.   *)
(***************************************************************************)
SalVal(x) == [kind |-> "val", v |-> x]

SalNone == [kind |-> "none", v |-> 0]

SalRaise == [kind |-> "raise", v |-> 0]

\* payload.get("prompt") or ""
PromptOrEmpty(payload) ==
    LET v == Get(payload, "prompt") IN IF Truthy(v) THEN v ELSE Str(<<>>)

\* the fallback parse of the free-text field
SalaryFromPrompt(payload) ==
    LET txt == PromptOrEmpty(payload)
    IN  IF txt.tag # "str" THEN SalRaise
        ELSE LET m == SalaryReSearch(txt.s)
             IN  IF ~m.ok THEN SalNone
                 ELSE IF PyFloat(m.g).ok THEN SalVal(PyFloat(m.g).v) ELSE SalNone

RECURSIVE ExtractSalaryFrom(_, _)
ExtractSalaryFrom(payload, j) ==
    IF j > Len(SalaryKeys) THEN SalaryFromPrompt(payload)
    ELSE LET key == SalaryKeys[j]
             parsed == PyFloat(RemoveCommas(PyStr(Get(payload, key))))
         IN  IF Has(payload, key) /\ Strip(PyStr(Get(payload, key))) # <<>> /\ parsed.ok
             THEN SalVal(parsed.v)
             ELSE ExtractSalaryFrom(payload, j + 1)

\* _extract_salary(payload)
ExtractSalary(payload) == ExtractSalaryFrom(payload, 1)

NameVal(chars) == [kind |-> "val", s |-> chars]

NameRaise == [kind |-> "raise", s |-> <<>>]

RECURSIVE ExtractNameFrom(_, _)
ExtractNameFrom(payload, j) ==
    IF j > Len(NameKeys)
    THEN LET txt == PromptOrEmpty(payload)
         IN  IF txt.tag # "str" THEN NameRaise
             ELSE LET m == NameReSearch(txt.s)
                  IN  IF m.ok THEN NameVal(Strip(m.g)) ELSE NameVal(<<>>)
    ELSE LET v == Get(payload, NameKeys[j])
         IN  IF v.tag # "none" /\ Strip(PyStr(v)) # <<>>
             THEN NameVal(Strip(PyStr(v)))
             ELSE ExtractNameFrom(payload, j + 1)

\* _extract_name(payload)
ExtractName(payload) == ExtractNameFrom(payload, 1)

(***************************************************************************)
(* Points of the collection.  A point may come without a payload           *)
(* (p.get("payload") or {}).                                               *)
(***************************************************************************)
Point(pid, payload) == [id |-> pid, has_payload |-> TRUE, payload |-> payload]

BarePoint(pid) == [id |-> pid, has_payload |-> FALSE, payload |-> EmptyPayload]

\* p.get("payload") or {}
PayloadOf(p) == IF p.has_payload THEN p.payload ELSE EmptyPayload

\* the payloads the aggregation is exercised on
AggPayloads ==
    { MkPayload("EMPLOYEEID" :> Str(<<"1">>) @@ "BASICSALARY" :> Num(1000)),
      MkPayload("EMPLOYEEID" :> Str(<<"2">>) @@ "BASICSALARY" :> Num(3000)),
      MkPayload("EMPLOYEEID" :> Str(<<"3">>) @@ "BASICSALARY" :> Num(1000)
                @@ "EMPLOYEENAME" :> Str(<<"C", "y">>)),
      MkPayload("EMPLOYEEID" :> Str(<<"1">>)),
      MkPayload("BASICSALARY" :> Num(1000)),
      MkPayload("employeeid" :> Num(2) @@ "SALARY" :> Str(<<"3", ",", "0", "0", "0">>)
                @@ "name" :> Str(<<"B", "o">>)),
      MkPayload("prompt" :> Str(<<"E", "M", "P", "L", "O", "Y", "E", "E", "N", "A", "M", "E",
                                   ":", " ", "A", "l", " ", "|", " ",
                                   "b", "a", "s", "i", "c", "s", "a", "l", "a", "r", "y",
                                   ":", " ", "2", "0", "0", "0">>)),
      MkPayload("EMPLOYEEID" :> Str(<<"4">>) @@ "BASICSALARY" :> Str(<<"a", "b", "c">>)
                @@ "prompt" :> Num(7)),
      MkPayload("EMPLOYEEID" :> Str(<<" ">>) @@ "BASICSALARY" :> PyNone) }

AggPoints == {Point(0, pl) : pl \in AggPayloads} \cup {BarePoint(0)}

RECURSIVE SeqsUpTo(_, _)
\* all sequences over S of length at most k
SeqsUpTo(S, k) ==
    IF k = 0 THEN {<<>>}
    ELSE LET shorter == SeqsUpTo(S, k - 1)
         IN  shorter \cup {Append(q, x) : q \in {r \in shorter : Len(r) = k - 1}, x \in S}

(***************************************************************************)
(* Arithmetic of the aggregation.                                          *)
(***************************************************************************)
RECURSIVE GCD(_, _)
GCD(a, b) == IF b = 0 THEN a ELSE GCD(b, a % b)

\* a / b on floats: a reduced fraction, or ZeroDivisionError
PyDiv(a, b) ==
    IF b = 0 THEN [err |-> TRUE, num |-> 0, den |-> 1]
    ELSE [err |-> FALSE, num |-> a \div GCD(a, b), den |-> b \div GCD(a, b)]

FloatZero == [err |-> FALSE, num |-> 0, den |-> 1]

NoFloat == [has |-> FALSE, v |-> 0]

SomeFloat(x) == [has |-> TRUE, v |-> x]

NoEmp == [has |-> FALSE, EMPLOYEEID |-> NoStr, EMPLOYEENAME |-> <<>>, BASICSALARY |-> 0]

\* {"EMPLOYEEID": emp_id, "EMPLOYEENAME": emp_name, "BASICSALARY": sal}
Emp(emp_id, emp_name, sal) ==
    [has |-> TRUE, EMPLOYEEID |-> emp_id, EMPLOYEENAME |-> emp_name, BASICSALARY |-> sal]

\* if emp_id: if emp_id in seen_emp: continue   (mutated: never skips)
IsDuplicateNever(emp_id, seen) == FALSE

\* if emp_id: if emp_id in seen_emp: continue
IsDuplicate(emp_id, seen) == emp_id.has /\ emp_id.s # <<>> /\ emp_id.s \in seen

\* mutated: the set is replaced by the new key
MarkSeenOnly(emp_id, seen) ==
    IF emp_id.has /\ emp_id.s # <<>> THEN {emp_id.s} ELSE seen

\* seen_emp.add(emp_id), guarded by "if emp_id"
MarkSeen(emp_id, seen) ==
    IF emp_id.has /\ emp_id.s # <<>> THEN seen \cup {emp_id.s} ELSE seen

\* mutated: an equal value replaces the minimum too
ReplacesMinOnTie(sal, cur) == ~cur.has \/ sal <= cur.v

\* min_salary is None or sal < min_salary
ReplacesMin(sal, cur) == ~cur.has \/ sal < cur.v

\* max_salary is None or sal > max_salary
ReplacesMax(sal, cur) == ~cur.has \/ sal > cur.v

\* mutated: always the number of values found
EmployeeCountValuesOnly(seen, found) == found

\* employee_count = len(seen_emp) if seen_emp else salary_values_found
EmployeeCount(seen, found) == IF seen # {} THEN Cardinality(seen) ELSE found

\* mutated: the guard against an empty denominator is missing
AvgSalaryUnguarded(total, count) == PyDiv(total, count)

\* avg_salary = (salary_sum / employee_count) if employee_count else 0.0
AvgSalary(total, count) == IF count # 0 THEN PyDiv(total, count) ELSE FloatZero

NoStats ==
    [employee_count |-> 0, salary_values_found |-> 0, total_salary |-> 0,
     avg_salary |-> FloatZero, min_salary |-> NoFloat, max_salary |-> NoFloat,
     min_salary_employee |-> NoEmp, max_salary_employee |-> NoEmp,
     dedup_by_employeeid |-> FALSE]

Min(a, b) == IF a < b THEN a ELSE b

Max(a, b) == IF a > b THEN a ELSE b

(***************************************************************************)
(* The intent classifier.                                                  *)
(***************************************************************************)
AggKeywords ==
    <<<<"t", "o", "t", "a", "l">>,
      <<"s", "u", "m">>,
      <<"a", "v", "e", "r", "a", "g", "e">>,
      <<"a", "v", "g">>,
      <<"m", "e", "a", "n">>,
      <<"c", "o", "u", "n", "t">>,
      <<"m", "a", "x", "i", "m", "u", "m">>,
      <<"m", "a", "x">>,
      <<"h", "i", "g", "h", "e", "s", "t">>,
      <<"m", "i", "n", "i", "m", "u", "m">>,
      <<"m", "i", "n">>,
      <<"l", "o", "w", "e", "s", "t">>,
      <<"m", "e", "d", "i", "a", "n">>,
      <<"t", "o", "p", " ">>,
      <<"t", "o", "p", "-">>>>

TargetKeywords ==
    <<<<"e", "m", "p", "l", "o", "y", "e", "e">>,
      <<"e", "m", "p", "l", "o", "y", "e", "e", "s">>,
      <<"s", "a", "l", "a", "r", "y">>,
      <<"b", "a", "s", "i", "c">>,
      <<"b", "a", "s", "i", "c", "s", "a", "l", "a", "r", "y">>,
      <<"p", "a", "y">>,
      <<"w", "a", "g", "e">>>>

AnyIn(text, words) == \E k \in 1..Len(words) : Contains(text, words[k])

\* mutated: a keyword of either kind is enough
LooksLikeAggregationEither(question) ==
    LET q == Lower(question)
    IN  AnyIn(q, AggKeywords) \/ AnyIn(q, TargetKeywords)

\* _looks_like_global_aggregation(question)
LooksLikeGlobalAggregation(question) ==
    LET q == Lower(question)
    IN  AnyIn(q, AggKeywords) /\ AnyIn(q, TargetKeywords)

SalaryOrBasic(q) == AnyIn(q, <<<<"s", "a", "l", "a", "r", "y">>, <<"b", "a", "s", "i", "c">>>>)

\* mutated: the average group is tried before the max group
PickMathOpAverageFirst(question) ==
    LET q == Lower(question)
    IN  IF AnyIn(q, <<<<"a", "v", "e", "r", "a", "g", "e">>, <<"a", "v", "g">>, <<"m", "e", "a", "n">>>>) /\ SalaryOrBasic(q) THEN "avg_salary"
        ELSE IF AnyIn(q, <<<<"m", "a", "x">>, <<"m", "a", "x", "i", "m", "u", "m">>, <<"h", "i", "g", "h", "e", "s", "t">>>>) /\ SalaryOrBasic(q) THEN "max_salary"
        ELSE "salary_stats"

\* _pick_math_op(question)
PickMathOp(question) ==
    LET q == Lower(question)
    IN  IF AnyIn(q, <<<<"m", "a", "x">>, <<"m", "a", "x", "i", "m", "u", "m">>, <<"h", "i", "g", "h", "e", "s", "t">>>>) /\ SalaryOrBasic(q) THEN "max_salary"
        ELSE IF AnyIn(q, <<<<"m", "i", "n">>, <<"m", "i", "n", "i", "m", "u", "m">>, <<"l", "o", "w", "e", "s", "t">>>>) /\ SalaryOrBasic(q) THEN "min_salary"
        ELSE IF AnyIn(q, <<<<"t", "o", "t", "a", "l">>, <<"s", "u", "m">>>>) /\ SalaryOrBasic(q) THEN "total_salary"
        ELSE IF AnyIn(q, <<<<"a", "v", "e", "r", "a", "g", "e">>, <<"a", "v", "g">>, <<"m", "e", "a", "n">>>>) /\ SalaryOrBasic(q) THEN "avg_salary"
        ELSE IF Contains(q, <<"c", "o", "u", "n", "t">>) /\ AnyIn(q, <<<<"e", "m", "p", "l", "o", "y", "e", "e">>, <<"e", "m", "p", "l", "o", "y", "e", "e", "s">>>>) THEN "count_employees"
        ELSE "salary_stats"

(***************************************************************************)
(* The hit ranker: _dedupe_hits.                                           *)
(***************************************************************************)
DedupePrefixLen == 220

Hit(pid, score, payload) ==
    [id |-> pid, score |-> score, has_payload |-> TRUE, payload |-> payload]

\* (p.get("prompt") or "").strip() of a hit whose prompt, if any, is a string
HitText(h) == Strip(PromptOrEmpty(PayloadOf(h)).s)

\* mutated: the whole text is the key
DedupeKeyWholeText(h) == HitText(h)

\* txt[:220]
DedupeKey(h) == SubSeq(HitText(h), 1, Min(DedupePrefixLen, Len(HitText(h))))

RECURSIVE DedupeFrom(_, _, _)
DedupeFrom(hs, j, seen) ==
    IF j > Len(hs) THEN <<>>
    ELSE LET key == DedupeKey(hs[j])
         IN  IF key # <<>> /\ key \notin seen
             THEN <<hs[j]>> \o DedupeFrom(hs, j + 1, seen \cup {key})
             ELSE DedupeFrom(hs, j + 1, seen)

\* mutated: nothing is filtered
DedupeHitsKeepsAll(hs) == hs

\* _dedupe_hits(hits)
DedupeHits(hs) == DedupeFrom(hs, 1, {})

(***************************************************************************)
(* The answer synthesis of api_ask.  Rendered text is a sequence of        *)
(* strings: the literal parts of an f-string are kept whole, the values    *)
(* are spelled out character by character.                                 *)
(***************************************************************************)
NoneText == <<"N", "o", "n", "e">>

\* str(x) of a float holding a whole number
FloatStr(x) == IntToStr(x) \o <<".", "0">>

\* str(q) of a float quotient; a fraction stands for its decimal expansion
QuotStr(q) ==
    IF q.den = 1 THEN FloatStr(q.num) ELSE IntToStr(q.num) \o <<"/">> \o IntToStr(q.den)

OptFloatStr(o) == IF o.has THEN FloatStr(o.v) ELSE NoneText

\* e.get('EMPLOYEENAME', '') with e = stats.get(...) or {}
EmpNameText(e) == IF e.has THEN e.EMPLOYEENAME ELSE <<>>

\* e.get('EMPLOYEEID', '')
EmpIdText(e) ==
    IF ~e.has THEN <<>> ELSE IF e.EMPLOYEEID.has THEN e.EMPLOYEEID.s ELSE NoneText

\* the exact numeric statement for the selected op
MathAnswer(op, st) ==
    CASE op = "total_salary" ->
            <<"Total basic salary (ALL employees) = ">> \o FloatStr(st.total_salary)
      [] op = "avg_salary" ->
            <<"Average basic salary (ALL employees) = ">> \o QuotStr(st.avg_salary)
      [] op = "count_employees" ->
            <<"Employee count = ">> \o IntToStr(st.employee_count)
      [] op = "max_salary" ->
            <<"Max basic salary = ">> \o OptFloatStr(st.max_salary) \o <<" ", "(Employee: ">>
            \o EmpNameText(st.max_salary_employee) \o <<" | ID: ">>
            \o EmpIdText(st.max_salary_employee) \o <<")">>
      [] op = "min_salary" ->
            <<"Min basic salary = ">> \o OptFloatStr(st.min_salary) \o <<" ", "(Employee: ">>
            \o EmpNameText(st.min_salary_employee) \o <<" | ID: ">>
            \o EmpIdText(st.min_salary_employee) \o <<")">>
      [] OTHER ->
            <<"Employees=">> \o IntToStr(st.employee_count)
            \o <<", Total=">> \o FloatStr(st.total_salary) \o <<", ", "Avg=">>
            \o QuotStr(st.avg_salary) \o <<", Min=">> \o OptFloatStr(st.min_salary)
            \o <<", Max=">> \o OptFloatStr(st.max_salary)

RECURSIVE Join(_, _)
\* sep.join(parts)
Join(sep, parts) ==
    IF parts = <<>> THEN <<>>
    ELSE IF Len(parts) = 1 THEN parts[1]
    ELSE parts[1] \o sep \o Join(sep, Tail(parts))

\* f"[{i}] {txt}" for each hit with a non-empty text, i counting all hits from 1
CtxBlocks(hs) ==
    LET kept == SelectSeq([j \in 1..Len(hs) |-> j], LAMBDA j : HitText(hs[j]) # <<>>)
    IN  [k \in 1..Len(kept) |->
            <<"[">> \o IntToStr(kept[k]) \o <<"]", " ">> \o HitText(hs[kept[k]])]

\* {"id": h.get("id"), "score": h.get("score")} for the same hits
Sources(hs) ==
    LET kept == SelectSeq([j \in 1..Len(hs) |-> j], LAMBDA j : HitText(hs[j]) # <<>>)
    IN  [k \in 1..Len(kept) |-> [id |-> hs[kept[k]].id, score |-> hs[kept[k]].score]]

\* context = "\n\n".join(ctx_blocks)
Context(hs) == Join(<<"\n", "\n">>, CtxBlocks(hs))

\* the prompt of the aggregation path, stripped
MathPrompt(math_answer, context, question) ==
    Strip(<<"\n", "\n", "NUMERIC_RESULT (authoritative):", "\n", "\n">> \o math_answer
          \o <<"\n", "\n", "\n", "\n", "Rules:", "\n", "\n",
               "- DO NOT recompute numbers (sum/avg/min/max/count) from CONTEXT.", "\n", "\n",
               "- Use CONTEXT only for explanation and a few examples.",
               "\n", "\n", "\n", "\n", "CONTEXT:", "\n", "\n">>
          \o context
          \o <<"\n", "\n", "\n", "\n", "QUESTION:", "\n", "\n">> \o question
          \o <<"\n", "\n", "\n", "\n", "Answer:", "\n", "\n">>)

\* the prompt of the retrieval-only path, stripped
RagPrompt(context, question) ==
    Strip(<<"\n", "\n", "You answer ONLY from CONTEXT.", "\n", "\n",
            "If answer not in CONTEXT, say: .",
            "\n", "\n", "\n", "\n", "CONTEXT:", "\n", "\n">>
          \o context
          \o <<"\n", "\n", "\n", "\n", "QUESTION:", "\n", "\n">> \o question
          \o <<"\n", "\n", "\n", "\n", "Answer:", "\n", "\n">>)

\* mutated: the narrative comes first
FinalAnswerNarrativeFirst(math_answer, k, explanation) ==
    explanation \o <<"\n\nExplanation/examples (Top-">> \o IntToStr(k) \o <<"):\n">>
    \o math_answer

\* f"{math_answer}\n\nExplanation/examples (Top-{top_k}):\n{explanation}"
FinalAnswer(math_answer, k, explanation) ==
    math_answer \o <<"\n\nExplanation/examples (Top-">> \o IntToStr(k) \o <<"):\n">>
    \o explanation

(***************************************************************************)
(* State.                                                                  *)
(***************************************************************************)
VARIABLES
    points,                 \* the argument of _compute_salary_stats_from_points
    compPc,                 \* "idle", "loop", "returned", "raised"
    idx,                    \* position of the for loop in points
    seen_emp,
    salary_sum,
    salary_values_found,
    min_salary,
    max_salary,
    min_emp,
    max_emp,
    stats,                  \* the dict returned
    corpus,                 \* the points held by the collection, in scroll order
    batch_size,             \* the argument of _qdrant_scroll_all
    max_points,             \* the record budget of the capped _qdrant_scroll_all, or None
    scanPc,                 \* "idle", "loop", "waiting", "returned", "raised"
    all_points,
    offset,
    request,                \* the body of the page request in flight
    requests,               \* number of page requests issued
    exchanges,              \* the request/response pairs completed so far
    calls,                  \* the upstream calls issued so far, in order
    failed,                 \* the upstream call that failed, and how
    evaluations,            \* the results the classifier gave so far
    askPc,                  \* position of the view: "idle", "start", "scan", "compute",
                            \* "embed", "search", "generate", "done"
    body,                   \* the request: its method, its view and the JSON it carries
    question,
    top_k,
    intent,                 \* "unclassified", "aggregation" or "semantic"
    op,
    math,                   \* stats with the fields api_ask adds to it
    math_answer,
    sources,
    rag_prompt,
    response,               \* the JsonResponse returned
    hits_in,                \* hits as _qdrant_search returned them
    hits_out,               \* hits after _dedupe_hits
    salary_payload,         \* the argument of a direct call of _extract_salary
    salary_result,          \* what that call returned
    callPc,                 \* position of a direct call of a helper: "idle", "call", "returned"
    workers                 \* the locals of each of the requests served concurrently

aggVars ==
    <<points, compPc, idx, seen_emp, salary_sum, salary_values_found,
      min_salary, max_salary, min_emp, max_emp, stats>>

scanVars ==
    <<corpus, batch_size, max_points, scanPc, all_points, offset, request, requests, exchanges>>

askVars ==
    <<askPc, body, question, top_k, intent, op, math, math_answer, sources, rag_prompt, response>>

helperVars == <<hits_in, hits_out, salary_payload, salary_result, callPc>>

vars == <<aggVars, scanVars, askVars, calls, failed, evaluations, helperVars, workers>>

\* the locals of _compute_salary_stats_from_points at entry
AggLocalsInit ==
    /\ idx = 1
    /\ seen_emp = {}
    /\ salary_sum = 0
    /\ salary_values_found = 0
    /\ min_salary = NoFloat
    /\ max_salary = NoFloat
    /\ min_emp = NoEmp
    /\ max_emp = NoEmp
    /\ stats = NoStats

AggIdle == points = <<>> /\ compPc = "idle" /\ AggLocalsInit

NoRequest == [limit |-> 0, has_offset |-> FALSE, offset |-> PyNone]

\* the locals of _qdrant_scroll_all at entry
ScanLocalsInit ==
    /\ all_points = <<>>
    /\ offset = PyNone
    /\ request = NoRequest
    /\ requests = 0
    /\ exchanges = <<>>

ScanIdle ==
    /\ corpus = <<>>
    /\ batch_size = 1
    /\ max_points = PyNone
    /\ scanPc = "idle"
    /\ ScanLocalsInit

NoMath ==
    [stats |-> NoStats, points_scanned |-> 0, collection_points_count |-> 0,
     math_op |-> "", auto_flow |-> ""]

NoRequestBody ==
    [method |-> "", path |-> "", question |-> Absent, message |-> Absent,
     top_k |-> Absent, op |-> Absent]

NoResponse ==
    [status |-> 0, error |-> "", answer |-> <<>>, sources |-> <<>>,
     has_math |-> FALSE, math |-> NoMath, auto_flow |-> "",
     field |-> "", meta |-> NoMath]

\* the locals of api_ask before any is assigned
AskLocalsInit ==
    /\ question = <<>>
    /\ top_k = 0
    /\ intent = "unclassified"
    /\ op = ""
    /\ math = NoMath
    /\ math_answer = <<>>
    /\ sources = <<>>
    /\ rag_prompt = <<>>
    /\ response = NoResponse

\* no upstream call failed
NoFailure == [call |-> "", how |-> ""]

Failure(call, how) == [call |-> call, how |-> how]

\* _extract_salary has not returned yet
SalUnset == [kind |-> "unset", v |-> 0]

\* no helper is called on its own and no request runs beside this one
HelperIdle ==
    /\ hits_in = <<>>
    /\ hits_out = <<>>
    /\ salary_payload = EmptyPayload
    /\ salary_result = SalUnset
    /\ callPc = "idle"

WorkersIdle == workers = <<>>

AskIdle ==
    /\ askPc = "idle"
    /\ body = NoRequestBody
    /\ AskLocalsInit
    /\ calls = <<>>
    /\ failed = NoFailure
    /\ evaluations = <<>>

\* a call of _compute_salary_stats_from_points on any bounded point list
InitStats ==
    /\ points \in SeqsUpTo(AggPoints, MaxPoints)
    /\ compPc = "loop"
    /\ AggLocalsInit
    /\ ScanIdle
    /\ AskIdle
    /\ HelperIdle
    /\ WorkersIdle

CurPayload == PayloadOf(points[idx])

InLoop == compPc = "loop" /\ idx <= Len(points)

\* one iteration: the dedup key was seen before, continue
StatsSkipSeen ==
    /\ InLoop
    /\ IsDuplicate(EmployeeKey(CurPayload), seen_emp)
    /\ idx' = idx + 1
    /\ UNCHANGED <<points, compPc, seen_emp, salary_sum, salary_values_found,
                   min_salary, max_salary, min_emp, max_emp, stats>>
    /\ UNCHANGED <<scanVars, askVars, calls>>
    /\ UNCHANGED <<failed, evaluations, helperVars, workers>>

\* one iteration: no salary can be derived, continue
StatsSkipNoSalary ==
    /\ InLoop
    /\ ~IsDuplicate(EmployeeKey(CurPayload), seen_emp)
    /\ ExtractSalary(CurPayload).kind = "none"
    /\ seen_emp' = MarkSeen(EmployeeKey(CurPayload), seen_emp)
    /\ idx' = idx + 1
    /\ UNCHANGED <<points, compPc, salary_sum, salary_values_found,
                   min_salary, max_salary, min_emp, max_emp, stats>>
    /\ UNCHANGED <<scanVars, askVars, calls>>
    /\ UNCHANGED <<failed, evaluations, helperVars, workers>>

\* one iteration: an extractor raises and the exception leaves the function
StatsRaise ==
    /\ InLoop
    /\ ~IsDuplicate(EmployeeKey(CurPayload), seen_emp)
    /\ \/ ExtractSalary(CurPayload).kind = "raise"
       \/ ExtractSalary(CurPayload).kind = "val" /\ ExtractName(CurPayload).kind = "raise"
    /\ seen_emp' = MarkSeen(EmployeeKey(CurPayload), seen_emp)
    /\ compPc' = "raised"
    /\ UNCHANGED <<points, idx, salary_sum, salary_values_found,
                   min_salary, max_salary, min_emp, max_emp, stats>>
    /\ UNCHANGED <<scanVars, askVars, calls>>
    /\ UNCHANGED <<failed, evaluations, helperVars, workers>>

\* one iteration: the record is counted
StatsCount ==
    /\ InLoop
    /\ ~IsDuplicate(EmployeeKey(CurPayload), seen_emp)
    /\ ExtractSalary(CurPayload).kind = "val"
    /\ ExtractName(CurPayload).kind = "val"
    /\ LET emp_id == EmployeeKey(CurPayload)
           sal == ExtractSalary(CurPayload).v
           emp_name == ExtractName(CurPayload).s
       IN  /\ seen_emp' = MarkSeen(emp_id, seen_emp)
           /\ salary_sum' = salary_sum + sal
           /\ salary_values_found' = salary_values_found + 1
           /\ IF ReplacesMin(sal, min_salary)
              THEN min_salary' = SomeFloat(sal) /\ min_emp' = Emp(emp_id, emp_name, sal)
              ELSE UNCHANGED <<min_salary, min_emp>>
           /\ IF ReplacesMax(sal, max_salary)
              THEN max_salary' = SomeFloat(sal) /\ max_emp' = Emp(emp_id, emp_name, sal)
              ELSE UNCHANGED <<max_salary, max_emp>>
    /\ idx' = idx + 1
    /\ UNCHANGED <<points, compPc, stats>>
    /\ UNCHANGED <<scanVars, askVars, calls>>
    /\ UNCHANGED <<failed, evaluations, helperVars, workers>>

\* the dict built after the loop
StatsDict ==
    LET employee_count == EmployeeCount(seen_emp, salary_values_found)
    IN  [employee_count |-> employee_count,
         salary_values_found |-> salary_values_found,
         total_salary |-> salary_sum,
         avg_salary |-> AvgSalary(salary_sum, employee_count),
         min_salary |-> min_salary,
         max_salary |-> max_salary,
         min_salary_employee |-> min_emp,
         max_salary_employee |-> max_emp,
         dedup_by_employeeid |-> seen_emp # {}]

\* the loop is over: compute count and average, return the dict
StatsReturn ==
    /\ compPc = "loop"
    /\ idx > Len(points)
    /\ IF StatsDict.avg_salary.err
       THEN compPc' = "raised" /\ stats' = stats
       ELSE compPc' = "returned" /\ stats' = StatsDict
    /\ UNCHANGED <<points, idx, seen_emp, salary_sum, salary_values_found,
                   min_salary, max_salary, min_emp, max_emp>>
    /\ UNCHANGED <<scanVars, askVars, calls>>
    /\ UNCHANGED <<failed, evaluations, helperVars, workers>>

NextStats ==
    \/ StatsSkipSeen
    \/ StatsSkipNoSalary
    \/ StatsRaise
    \/ StatsCount
    \/ StatsReturn

SpecStats == InitStats /\ [][NextStats]_vars

(***************************************************************************)
(* The corpus scanner, _qdrant_scroll_all, and the store it talks to.      *)
(* A cursor (next_page_offset) is the id of the point the next page starts *)
(* at; the points of a collection carry the ids 1..N in scroll order.      *)
(***************************************************************************)
CeilDiv(a, b) == (a + b - 1) \div b

\* the position a page request starts at
StartOf(req) == IF req.has_offset THEN req.offset.n ELSE 1

Response(pts, next) == [points |-> pts, next_page_offset |-> next]

\* the page a store with well-formed cursors serves: the next limit points,
\* and the id of the point after them, or null when none is left
WellFormedResponse(req) ==
    LET first == StartOf(req)
        last == Min(first + req.limit - 1, Len(corpus))
    IN  Response(SubSeq(corpus, first, last),
                 IF last < Len(corpus) THEN Num(last + 1) ELSE PyNone)

\* the cursors some store may send: null, an empty token, 0, or the id of
\* any point, stale or not
CursorValues == {PyNone, Str(<<>>), Num(0)} \cup {Num(k) : k \in 1..Len(corpus)}

\* every response to a page request: up to limit points from the requested
\* position on, with any cursor
StoreResponses(req) ==
    LET first == StartOf(req)
        most == Min(req.limit, Len(corpus) - first + 1)
    IN  {Response(SubSeq(corpus, first, first + k - 1), c) :
             k \in 0..Max(most, 0), c \in CursorValues}

\* mutated: only the cursor is looked at
ScanStopsOnCursorOnly(next, pts) == ~Truthy(next)

\* if not offset or not points: break
ScanStops(next, pts) == ~Truthy(next) \/ pts = <<>>

\* mutated: the cursor is never sent back
RequestBodyNoOffset(limit, cursor) ==
    [limit |-> limit, has_offset |-> FALSE, offset |-> PyNone]

\* body = {"limit": int(batch_size), ...}; if offset is not None: body["offset"] = offset
RequestBody(limit, cursor) ==
    [limit |-> limit, has_offset |-> cursor.tag # "none", offset |-> cursor]

\* a call of _qdrant_scroll_all(batch_size) against a collection of N points
InitScan ==
    /\ \E n \in 0..MaxCorpus : corpus = [i \in 1..n |-> BarePoint(i)]
    /\ batch_size \in 1..MaxBatch
    /\ max_points = PyNone
    /\ scanPc = "loop"
    /\ ScanLocalsInit
    /\ AggIdle
    /\ AskIdle
    /\ HelperIdle
    /\ WorkersIdle

\* top of the loop: post the page request
ScrollRequest ==
    /\ scanPc = "loop"
    /\ requests < MaxRequests
    /\ request' = RequestBody(batch_size, offset)
    /\ requests' = requests + 1
    /\ scanPc' = "waiting"
    /\ calls' = Append(calls, "scroll")
    /\ UNCHANGED <<corpus, batch_size, all_points, offset, exchanges>>
    /\ UNCHANGED <<aggVars, askVars>>
    /\ UNCHANGED <<max_points, failed, evaluations, helperVars, workers>>

\* the response arrives: extend all_points, take the cursor, break or loop
TakeResponse(resp) ==
    /\ all_points' = all_points \o resp.points
    /\ offset' = resp.next_page_offset
    /\ exchanges' = Append(exchanges, [sent |-> request, got |-> resp])
    /\ scanPc' = IF ScanStops(resp.next_page_offset, resp.points)
                 THEN "returned" ELSE "loop"
    /\ UNCHANGED <<corpus, batch_size, request, requests>>
    /\ UNCHANGED <<aggVars, askVars, calls>>
    /\ UNCHANGED <<max_points, failed, evaluations, helperVars, workers>>

\* any store answers
ScrollResponse ==
    /\ scanPc = "waiting"
    /\ \E resp \in StoreResponses(request) : TakeResponse(resp)

\* a store with well-formed cursors answers
ScrollPage ==
    /\ scanPc = "waiting"
    /\ TakeResponse(WellFormedResponse(request))

\* r.raise_for_status() raises, or the post times out
ScrollFail ==
    /\ scanPc = "waiting"
    /\ scanPc' = "raised"
    /\ UNCHANGED <<corpus, batch_size, all_points, offset, request, requests, exchanges>>
    /\ UNCHANGED <<aggVars, askVars, calls>>
    /\ failed' = Failure("scroll", "transport")
    /\ UNCHANGED <<max_points, evaluations, helperVars, workers>>

NextScan ==
    \/ ScrollRequest
    \/ ScrollResponse
    \/ ScrollFail

SpecScan == InitScan /\ [][NextScan]_vars

(***************************************************************************)
(* The capped scanner of last-views.py: _qdrant_scroll_all(max_points,     *)
(* batch_size) over _qdrant_scroll.  api_math passes it                    *)
(* int(payload.get("max_points", 500)), any integer.                       *)
(***************************************************************************)
\* xs[:m]
PySlicePrefix(xs, m) ==
    IF m >= 0 THEN SubSeq(xs, 1, Min(m, Len(xs)))
    ELSE SubSeq(xs, 1, Max(0, Len(xs) + m))

\* the budgets the capped scan is exercised on: none, or an integer
Budgets == {PyNone} \cup {Num(k) : k \in (0 - 1)..MaxBudget}

InitCapped ==
    /\ \E n \in 0..MaxCorpus : corpus = [i \in 1..n |-> BarePoint(i)]
    /\ batch_size \in 1..MaxBatch
    /\ max_points \in Budgets
    /\ scanPc = "loop"
    /\ ScanLocalsInit
    /\ AggIdle
    /\ AskIdle
    /\ HelperIdle
    /\ WorkersIdle

\* top of the loop: _qdrant_scroll builds the body and posts it
CappedRequest ==
    /\ scanPc = "loop"
    /\ requests < MaxRequests
    /\ request' = RequestBody(batch_size, offset)
    /\ requests' = requests + 1
    /\ scanPc' = "waiting"
    /\ calls' = Append(calls, "scroll")
    /\ UNCHANGED <<corpus, batch_size, max_points, all_points, offset, exchanges>>
    /\ UNCHANGED <<aggVars, askVars, failed, evaluations, helperVars, workers>>

\* the page arrives: extend all_points; return the first max_points of them
\* once the budget is reached, else take the cursor and break or loop
CappedResponse ==
    /\ scanPc = "waiting"
    /\ \E resp \in StoreResponses(request) :
          LET got == all_points \o resp.points
          IN  /\ exchanges' = Append(exchanges, [sent |-> request, got |-> resp])
              /\ IF max_points.tag # "none" /\ Len(got) >= max_points.n
                 THEN /\ all_points' = PySlicePrefix(got, max_points.n)
                      /\ offset' = offset
                      /\ scanPc' = "returned"
                 ELSE /\ all_points' = got
                      /\ offset' = resp.next_page_offset
                      /\ scanPc' = IF ScanStops(resp.next_page_offset, resp.points)
                                   THEN "returned" ELSE "loop"
    /\ UNCHANGED <<corpus, batch_size, max_points, request, requests>>
    /\ UNCHANGED <<aggVars, askVars, calls, failed, evaluations, helperVars, workers>>

\* r.raise_for_status() raises in _qdrant_scroll, or the post times out
CappedFail ==
    /\ scanPc = "waiting"
    /\ scanPc' = "raised"
    /\ failed' = Failure("scroll", "transport")
    /\ UNCHANGED <<corpus, batch_size, max_points, all_points, offset, request,
                   requests, exchanges>>
    /\ UNCHANGED <<aggVars, askVars, calls, evaluations, helperVars, workers>>

NextCapped ==
    \/ CappedRequest
    \/ CappedResponse
    \/ CappedFail

SpecCapped == InitCapped /\ [][NextCapped]_vars

(***************************************************************************)
(* api_ask: validation, classification, the full-scan path, the retrieval  *)
(* and the answer; api_math: the op, the full scan, the stats and the      *)
(* count.  Every upstream call either answers or fails.                    *)
(***************************************************************************)
ScrollBatch == 200

MaxTopK == 2

ErrorResponse(status, error) == [NoResponse EXCEPT !.status = status, !.error = error]

\* mutated: the stats computed so far go out with the error
UpstreamFailureKeepsStats ==
    [ErrorResponse(502, "Upstream request failed") EXCEPT !.has_math = TRUE, !.math = math]

\* except requests.exceptions.RequestException
UpstreamFailure == ErrorResponse(502, "Upstream request failed")

\* except Exception
ServerError == ErrorResponse(500, "exception")

\* payload.get("question") or payload.get("message") or ""
PickedQuestion(b) ==
    IF Truthy(b.question) THEN b.question
    ELSE IF Truthy(b.message) THEN b.message
    ELSE Str(<<>>)

DefaultTopK == 6

\* payload.get("top_k", 6)
TopKOf(b) == IF b.top_k.tag = "absent" THEN Num(DefaultTopK) ELSE b.top_k

\* int(v): a number, or the digits of a string with blanks around them;
\* anything else raises ValueError or TypeError
PyInt(v) ==
    IF v.tag = "num" THEN [err |-> FALSE, n |-> v.n]
    ELSE IF /\ v.tag = "str"
            /\ Strip(v.s) # <<>>
            /\ \A j \in 1..Len(Strip(v.s)) : IsDigit(Strip(v.s)[j])
         THEN [err |-> FALSE, n |-> DigitsToInt(Strip(v.s))]
    ELSE [err |-> TRUE, n |-> 0]

\* mutated: the question is not validated
BeginOutcomeNoValidation(b) ==
    IF b.method # "POST" THEN "method"
    ELSE IF PickedQuestion(b).tag # "str" THEN "exception"
    ELSE IF PyInt(TopKOf(b)).err THEN "exception"
    ELSE IF LooksLikeGlobalAggregation(Strip(PickedQuestion(b).s)) THEN "aggregation"
    ELSE "semantic"

\* mutated: every valid question is sent down the aggregation path
BeginOutcomeAlwaysScans(b) ==
    IF b.method # "POST" THEN "method"
    ELSE IF PickedQuestion(b).tag # "str" THEN "exception"
    ELSE IF PyInt(TopKOf(b)).err THEN "exception"
    ELSE IF Strip(PickedQuestion(b).s) = <<>> THEN "invalid"
    ELSE "aggregation"

\* how api_ask leaves its first lines
BeginOutcome(b) ==
    IF b.method # "POST" THEN "method"
    ELSE IF PickedQuestion(b).tag # "str" THEN "exception"
    ELSE IF PyInt(TopKOf(b)).err THEN "exception"
    ELSE IF Strip(PickedQuestion(b).s) = <<>> THEN "invalid"
    ELSE IF LooksLikeGlobalAggregation(Strip(PickedQuestion(b).s)) THEN "aggregation"
    ELSE "semantic"

\* the questions api_ask is exercised on
AskQuestions ==
    { Absent, Str(<<>>), Str(<<" ", " ">>), Num(5),
      Str(<<"t", "o", "t", "a", "l", " ", "s", "a", "l", "a", "r", "y">>), Str(<<"M", "a", "x", " ", "S", "a", "l", "a", "r", "y">>), Str(<<"l", "o", "w", "e", "s", "t", " ", "b", "a", "s", "i", "c", " ", "p", "a", "y">>), Str(<<"m", "e", "a", "n", " ", "s", "a", "l", "a", "r", "y">>),
      Str(<<"c", "o", "u", "n", "t", " ", "e", "m", "p", "l", "o", "y", "e", "e", "s">>), Str(<<"t", "o", "p", " ", "p", "a", "y">>), Str(<<"w", "h", "o", " ", "i", "s", " ", "A", "l">>) }

AskBody(method, q, m, k) ==
    [method |-> method, path |-> "ask", question |-> q, message |-> m, top_k |-> k,
     op |-> Absent]

\* the requests api_ask is exercised on: every question with a numeric top_k,
\* a message instead of a question, a GET, and top_k absent, given as text,
\* null or not a number
AskBodies ==
    {AskBody("POST", q, Absent, Num(k)) : q \in AskQuestions, k \in 1..MaxTopK}
    \cup {AskBody("POST", Absent, Str(<<"s", "u", "m", " ", "o", "f", " ", "s", "a", "l", "a", "r", "y">>), Num(1)),
          AskBody("GET", Str(<<"t", "o", "t", "a", "l", " ", "s", "a", "l", "a", "r", "y">>), Absent, Num(1)),
          AskBody("POST", Str(<<"w", "h", "o", " ", "i", "s", " ", "A", "l">>), Absent, Absent),
          AskBody("POST", Str(<<"m", "e", "a", "n", " ", "s", "a", "l", "a", "r", "y">>), Absent, Str(<<" ", "2">>)),
          AskBody("POST", Str(<<"w", "h", "o", " ", "i", "s", " ", "A", "l">>), Absent, Str(<<"x">>)),
          AskBody("POST", Str(<<"t", "o", "t", "a", "l", " ", "s", "a", "l", "a", "r", "y">>), Absent, PyNone),
          AskBody("POST", Absent, Absent, Str(<<"x">>)),
          AskBody("POST", PyNone, Str(<<>>), Num(1))}

\* the requests api_math is exercised on
MathBodies ==
    {[method |-> m, path |-> "math", question |-> Absent, message |-> Absent,
      top_k |-> Absent, op |-> o] :
         m \in {"POST", "GET"},
         o \in {Absent, Str(<<>>), Num(3), Str(<<" ", "T", "o", "t", "a", "l", "_", "S", "a", "l", "a", "r", "y">>),
                Str(<<"c", "o", "u", "n", "t", "_", "e", "m", "p", "l", "o", "y", "e", "e", "s">>), Str(<<"m", "e", "d", "i", "a", "n">>)}}

AskPayloads ==
    { MkPayload("EMPLOYEEID" :> Str(<<"1">>) @@ "BASICSALARY" :> Num(1000)),
      MkPayload("EMPLOYEEID" :> Str(<<"2">>) @@ "BASICSALARY" :> Num(3000)
                @@ "EMPLOYEENAME" :> Str(<<"B", "o">>)),
      MkPayload("EMPLOYEEID" :> Str(<<"1">>)),
      MkPayload("BASICSALARY" :> Str(<<"a", "b", "c">>) @@ "prompt" :> Num(7)) }

\* the collections api_ask is exercised on: the points carry the ids 1..N
AskCorpora ==
    {[i \in 1..Len(pls) |-> Point(i, pls[i])] : pls \in SeqsUpTo(AskPayloads, 2)}

LongText(last) == [j \in 1..(DedupePrefixLen + 1) |-> IF j <= DedupePrefixLen THEN "a" ELSE last]

\* the points a similarity search may return, by descending score
HitList ==
    << Hit(11, 9, MkPayload("prompt" :> Str(<<"A", "l">>))),
       Hit(12, 8, MkPayload("prompt" :> Str(<<" ", "A", "l", " ">>))),
       Hit(13, 7, MkPayload("prompt" :> Str(<<"B", "o">>))),
       [id |-> 14, score |-> 6, has_payload |-> FALSE, payload |-> EmptyPayload],
       Hit(15, 5, MkPayload("prompt" :> Str(LongText("x")))),
       Hit(16, 4, MkPayload("prompt" :> Str(LongText("y")))) >>

\* the results of _qdrant_search(vec, limit): at most limit points, ranked
SearchResults(limit) ==
    {SelectSeq(HitList, LAMBDA h : h.id \in ids) :
         ids \in {x \in SUBSET {HitList[j].id : j \in 1..Len(HitList)} : Cardinality(x) <= limit}}

\* what the generation service may put in message.content
GenOutputs ==
    { <<>>, <<" ", "\n">>, <<" ", "It is as stated.", "\n">>,
      <<"Total basic salary (ALL employees) = ", "9", ".", "0">> }

\* (payload.get("op") or "salary_stats").strip().lower()
PickedOp(b) == IF Truthy(b.op) THEN b.op ELSE Str(<<"s", "a", "l", "a", "r", "y", "_", "s", "t", "a", "t", "s">>)

\* the key api_math returns next to "meta" for the op, "" when it returns the
\* stats themselves
MathField(chars) ==
    CASE chars = <<"c", "o", "u", "n", "t", "_", "e", "m", "p", "l", "o", "y", "e", "e", "s">> -> "employee_count"
      [] chars = <<"t", "o", "t", "a", "l", "_", "s", "a", "l", "a", "r", "y">> -> "total_salary"
      [] chars = <<"a", "v", "g", "_", "s", "a", "l", "a", "r", "y">> -> "avg_salary"
      [] chars = <<"m", "a", "x", "_", "s", "a", "l", "a", "r", "y">> -> "max_salary"
      [] chars = <<"m", "i", "n", "_", "s", "a", "l", "a", "r", "y">> -> "min_salary"
      [] OTHER -> ""

\* how api_math leaves its first lines
MathBeginOutcome(b) ==
    IF b.method # "POST" THEN "method"
    ELSE IF PickedOp(b).tag # "str" THEN "exception"
    ELSE "scan"

InitAsk ==
    /\ body \in AskBodies \cup MathBodies
    /\ corpus \in AskCorpora
    /\ askPc = "start"
    /\ AskLocalsInit
    /\ calls = <<>>
    /\ failed = NoFailure
    /\ evaluations = <<>>
    /\ HelperIdle
    /\ WorkersIdle
    /\ batch_size = 1 /\ max_points = PyNone /\ scanPc = "idle" /\ ScanLocalsInit
    /\ AggIdle

ScanReset ==
    /\ scanPc' = "idle"
    /\ all_points' = <<>>
    /\ offset' = PyNone
    /\ request' = NoRequest
    /\ requests' = 0
    /\ exchanges' = <<>>

AggReset ==
    /\ compPc' = "idle"
    /\ idx' = 1
    /\ seen_emp' = {}
    /\ salary_sum' = 0
    /\ salary_values_found' = 0
    /\ min_salary' = NoFloat
    /\ max_salary' = NoFloat
    /\ min_emp' = NoEmp
    /\ max_emp' = NoEmp

\* mutated: the path is taken with the question still unclassified
IntentOfUnclassified(how) == "unclassified"

\* if _looks_like_global_aggregation(question): ... else the normal RAG
IntentOf(how) == IF how \in {"aggregation", "semantic"} THEN how ELSE "unclassified"

\* method check, question, top_k, validation and classification, up to the
\* first upstream call
AskBegin ==
    /\ askPc = "start"
    /\ body.path = "ask"
    /\ LET how == BeginOutcome(body)
       IN  /\ response' = CASE how = "method" -> ErrorResponse(405, "POST required")
                            [] how = "exception" -> ServerError
                            [] how = "invalid" -> ErrorResponse(400, "question is required")
                            [] OTHER -> response
           /\ question' = IF how \in {"invalid", "aggregation", "semantic"}
                          THEN Strip(PickedQuestion(body).s) ELSE question
           /\ top_k' = IF how \in {"invalid", "aggregation", "semantic"}
                       THEN PyInt(TopKOf(body)).n ELSE top_k
           /\ intent' = IntentOf(how)
           /\ op' = IF how = "aggregation" THEN PickMathOp(Strip(PickedQuestion(body).s)) ELSE op
           /\ askPc' = CASE how = "aggregation" -> "scan"
                         [] how = "semantic" -> "embed"
                         [] OTHER -> "done"
           /\ scanPc' = IF how = "aggregation" THEN "loop" ELSE scanPc
           /\ batch_size' = IF how = "aggregation" THEN ScrollBatch ELSE batch_size
    /\ UNCHANGED <<body, math, math_answer, sources, rag_prompt, calls>>
    /\ UNCHANGED <<corpus, all_points, offset, request, requests, exchanges>>
    /\ UNCHANGED aggVars
    /\ UNCHANGED <<max_points, failed, evaluations, helperVars, workers>>

\* api_math: method check and op, up to the scroll
MathBegin ==
    /\ askPc = "start"
    /\ body.path = "math"
    /\ LET how == MathBeginOutcome(body)
       IN  /\ response' = CASE how = "method" -> ErrorResponse(405, "POST required")
                            [] how = "exception" -> ServerError
                            [] OTHER -> response
           /\ askPc' = IF how = "scan" THEN "scan" ELSE "done"
           /\ scanPc' = IF how = "scan" THEN "loop" ELSE scanPc
           /\ batch_size' = IF how = "scan" THEN ScrollBatch ELSE batch_size
    /\ UNCHANGED <<body, question, top_k, intent, op, math, math_answer, sources, rag_prompt>>
    /\ UNCHANGED <<corpus, max_points, all_points, offset, request, requests, exchanges>>
    /\ UNCHANGED <<aggVars, calls, failed, evaluations, helperVars, workers>>

\* points = _qdrant_scroll_all(batch_size=200) returned: enter the aggregation
\* (api_ask line 831, api_math line 731)
AskScanned ==
    /\ askPc = "scan"
    /\ scanPc = "returned"
    /\ points' = all_points
    /\ compPc' = "loop"
    /\ askPc' = "compute"
    /\ ScanReset
    /\ UNCHANGED <<idx, seen_emp, salary_sum, salary_values_found,
                   min_salary, max_salary, min_emp, max_emp, stats>>
    /\ UNCHANGED <<corpus, batch_size, calls>>
    /\ UNCHANGED <<body, question, top_k, op, math, math_answer, sources, rag_prompt, response>>
    /\ UNCHANGED <<max_points, intent, failed, evaluations, helperVars, workers>>

\* the scroll raised a RequestException
AskScanFailed ==
    /\ askPc = "scan"
    /\ scanPc = "raised"
    /\ response' = UpstreamFailure
    /\ askPc' = "done"
    /\ ScanReset
    /\ UNCHANGED <<corpus, batch_size, calls>>
    /\ UNCHANGED <<body, question, top_k, op, math, math_answer, sources, rag_prompt>>
    /\ UNCHANGED aggVars
    /\ UNCHANGED <<max_points, intent, failed, evaluations, helperVars, workers>>

\* an extractor raised inside the aggregation
AskStatsFailed ==
    /\ askPc = "compute"
    /\ compPc = "raised"
    /\ response' = ServerError
    /\ askPc' = "done"
    /\ AggReset
    /\ UNCHANGED <<points, stats, calls>>
    /\ UNCHANGED <<body, question, top_k, op, math, math_answer, sources, rag_prompt>>
    /\ UNCHANGED scanVars
    /\ UNCHANGED <<intent, failed, evaluations, helperVars, workers>>

\* the stats are back: ask the collection for its count, render the statement
AskCount ==
    /\ askPc = "compute"
    /\ body.path = "ask"
    /\ compPc = "returned"
    /\ calls' = Append(calls, "count")
    /\ math' = [stats |-> stats, points_scanned |-> Len(points),
                collection_points_count |-> Len(corpus), math_op |-> op,
                auto_flow |-> "FULL_SCAN_MATH_THEN_RAG"]
    /\ math_answer' = MathAnswer(op, stats)
    /\ askPc' = "embed"
    /\ AggReset
    /\ UNCHANGED <<points, stats>>
    /\ UNCHANGED <<body, question, top_k, op, sources, rag_prompt, response>>
    /\ UNCHANGED scanVars
    /\ UNCHANGED <<intent, failed, evaluations, helperVars, workers>>

\* api_math: the stats are back, the collection answers its count, the JSON
\* for the op is returned
MathCount ==
    /\ askPc = "compute"
    /\ body.path = "math"
    /\ compPc = "returned"
    /\ calls' = Append(calls, "count")
    /\ response' = [NoResponse EXCEPT
                        !.status = 200,
                        !.field = MathField(Lower(Strip(PickedOp(body).s))),
                        !.meta = [NoMath EXCEPT !.stats = stats,
                                               !.points_scanned = Len(points),
                                               !.collection_points_count = Len(corpus)]]
    /\ askPc' = "done"
    /\ AggReset
    /\ UNCHANGED <<points, stats>>
    /\ UNCHANGED <<body, question, top_k, intent, op, math, math_answer, sources, rag_prompt>>
    /\ UNCHANGED <<scanVars, failed, evaluations, helperVars, workers>>

\* _qdrant_points_count raised a RequestException (api_ask line 837, api_math
\* line 737)
AskCountFail ==
    /\ askPc = "compute"
    /\ compPc = "returned"
    /\ calls' = Append(calls, "count")
    /\ response' = UpstreamFailure
    /\ askPc' = "done"
    /\ AggReset
    /\ UNCHANGED <<points, stats>>
    /\ UNCHANGED <<body, question, top_k, op, math, math_answer, sources, rag_prompt>>
    /\ UNCHANGED scanVars
    /\ failed' = Failure("count", "transport")
    /\ UNCHANGED <<intent, evaluations, helperVars, workers>>

\* vec = _ollama_embeddings(question)
AskEmbed ==
    /\ askPc = "embed"
    /\ calls' = Append(calls, "embed")
    /\ askPc' = "search"
    /\ UNCHANGED <<body, question, top_k, op, math, math_answer, sources, rag_prompt, response>>
    /\ UNCHANGED <<aggVars, scanVars>>
    /\ UNCHANGED <<intent, failed, evaluations, helperVars, workers>>

\* the embedding call fails in transport, or its answer has no "embedding"
AskEmbedFail ==
    /\ askPc = "embed"
    /\ calls' = Append(calls, "embed")
    /\ \E missing \in BOOLEAN :
          /\ response' = IF missing THEN ServerError ELSE UpstreamFailure
          /\ failed' = Failure("embed", IF missing THEN "malformed" ELSE "transport")
    /\ askPc' = "done"
    /\ UNCHANGED <<body, question, top_k, op, math, math_answer, sources, rag_prompt>>
    /\ UNCHANGED <<aggVars, scanVars>>
    /\ UNCHANGED <<intent, evaluations, helperVars, workers>>

\* hits = _dedupe_hits(_qdrant_search(vec, limit=top_k)); context, sources, prompt
AskSearch ==
    /\ askPc = "search"
    /\ calls' = Append(calls, "search")
    /\ \E found \in SearchResults(top_k) :
          LET hits == DedupeHits(found)
          IN  /\ hits_in' = found
              /\ hits_out' = hits
              /\ sources' = Sources(hits)
              /\ rag_prompt' = IF op # ""
                               THEN MathPrompt(math_answer, Context(hits), question)
                               ELSE RagPrompt(Context(hits), question)
    /\ askPc' = "generate"
    /\ UNCHANGED <<body, question, top_k, op, math, math_answer, response>>
    /\ UNCHANGED <<aggVars, scanVars>>
    /\ UNCHANGED <<intent, failed, evaluations, workers>>
    /\ UNCHANGED <<salary_payload, salary_result, callPc>>

\* _qdrant_search raised a RequestException
AskSearchFail ==
    /\ askPc = "search"
    /\ calls' = Append(calls, "search")
    /\ response' = UpstreamFailure
    /\ askPc' = "done"
    /\ UNCHANGED <<body, question, top_k, op, math, math_answer, sources, rag_prompt>>
    /\ UNCHANGED <<aggVars, scanVars>>
    /\ failed' = Failure("search", "transport")
    /\ UNCHANGED <<intent, evaluations, helperVars, workers>>

\* _ollama_generate(rag_prompt) answers: build and return the JSON
AskGenerate ==
    /\ askPc = "generate"
    /\ calls' = Append(calls, "generate")
    /\ \E content \in GenOutputs :
          LET explanation == Strip(content)
          IN  response' =
                 IF op # ""
                 THEN [NoResponse EXCEPT !.status = 200,
                                         !.answer = FinalAnswer(math_answer, top_k, explanation),
                                         !.sources = sources,
                                         !.has_math = TRUE,
                                         !.math = math]
                 ELSE [NoResponse EXCEPT !.status = 200,
                                         !.answer = explanation,
                                         !.sources = sources,
                                         !.auto_flow = "RAG_ONLY"]
    /\ askPc' = "done"
    /\ UNCHANGED <<body, question, top_k, op, math, math_answer, sources, rag_prompt>>
    /\ UNCHANGED <<aggVars, scanVars>>
    /\ UNCHANGED <<intent, failed, evaluations, helperVars, workers>>

\* _ollama_generate raised a RequestException
AskGenerateFail ==
    /\ askPc = "generate"
    /\ calls' = Append(calls, "generate")
    /\ response' = UpstreamFailure
    /\ askPc' = "done"
    /\ UNCHANGED <<body, question, top_k, op, math, math_answer, sources, rag_prompt>>
    /\ UNCHANGED <<aggVars, scanVars>>
    /\ failed' = Failure("generate", "transport")
    /\ UNCHANGED <<intent, evaluations, helperVars, workers>>

NextAsk ==
    \/ AskBegin
    \/ MathBegin
    \/ ScrollRequest
    \/ ScrollPage
    \/ ScrollFail
    \/ AskScanned
    \/ AskScanFailed
    \/ StatsSkipSeen
    \/ StatsSkipNoSalary
    \/ StatsRaise
    \/ StatsCount
    \/ StatsReturn
    \/ AskStatsFailed
    \/ AskCount
    \/ MathCount
    \/ AskCountFail
    \/ AskEmbed
    \/ AskEmbedFail
    \/ AskSearch
    \/ AskSearchFail
    \/ AskGenerate
    \/ AskGenerateFail

SpecAsk == InitAsk /\ [][NextAsk]_vars

(***************************************************************************)
(* The intent classifier on its own: _looks_like_global_aggregation and    *)
(* _pick_math_op as api_ask calls them, evaluated on questions made of up  *)
(* to MaxWords words.                                                      *)
(***************************************************************************)
Words ==
    { <<"t", "o", "t", "a", "l">>,
      <<"A", "V", "E", "R", "A", "G", "E">>,
      <<"m", "e", "a", "n">>,
      <<"c", "o", "u", "n", "t">>,
      <<"M", "a", "x">>,
      <<"h", "i", "g", "h", "e", "s", "t">>,
      <<"l", "o", "w", "e", "s", "t">>,
      <<"t", "o", "p">>,
      <<"s", "a", "l", "a", "r", "y">>,
      <<"e", "m", "p", "l", "o", "y", "e", "e", "s">>,
      <<"p", "a", "y">> }

ExampleQuestion == <<"w", "h", "a", "t", " ", "i", "s", " ", "t", "h", "e", " ", "h", "i", "g", "h", "e", "s", "t", " ", "a", "n", "d", " ", "a", "v", "e", "r", "a", "g", "e", " ", "s", "a", "l", "a", "r", "y">>

\* the questions the classifier is exercised on
ClassifyQuestions ==
    {Join(<<" ">>, ws) : ws \in SeqsUpTo(Words, MaxWords)} \cup {ExampleQuestion}

\* if _looks_like_global_aggregation(question): op = _pick_math_op(question)
ClassifyResult(q) ==
    [aggregation |-> LooksLikeGlobalAggregation(q),
     op |-> IF LooksLikeGlobalAggregation(q) THEN PickMathOp(q) ELSE ""]

InitClassify ==
    /\ question \in ClassifyQuestions
    /\ evaluations = <<>>
    /\ HelperIdle
    /\ WorkersIdle
    /\ askPc = "idle"
    /\ body = NoRequestBody
    /\ top_k = 0
    /\ intent = "unclassified"
    /\ op = ""
    /\ math = NoMath
    /\ math_answer = <<>>
    /\ sources = <<>>
    /\ rag_prompt = <<>>
    /\ response = NoResponse
    /\ calls = <<>>
    /\ failed = NoFailure
    /\ AggIdle
    /\ ScanIdle

\* one evaluation of the classifier on the question
Classify ==
    /\ Len(evaluations) < MaxEvaluations
    /\ evaluations' = Append(evaluations, ClassifyResult(question))
    /\ UNCHANGED <<aggVars, scanVars, askVars, calls, failed, helperVars, workers>>

NextClassify == Classify

SpecClassify == InitClassify /\ [][NextClassify]_vars

(***************************************************************************)
(* Properties of the aggregation engine.                                   *)
(***************************************************************************)
KeyAt(i) == EmployeeKey(PayloadOf(points[i]))

SalaryAt(i) == ExtractSalary(PayloadOf(points[i]))

\* the dedup keys carried by the records of the argument
KeysOfPoints == {KeyAt(i).s : i \in {j \in 1..Len(points) : KeyAt(j).has}}

\* the records before the loop position that carry no dedup key
KeylessBefore == {i \in 1..(idx - 1) : ~KeyAt(i).has}

AggregatesUnchanged ==
    /\ salary_sum' = salary_sum
    /\ salary_values_found' = salary_values_found
    /\ min_salary' = min_salary
    /\ max_salary' = max_salary
    /\ min_emp' = min_emp
    /\ max_emp' = max_emp

\* C2: a record whose dedup key was seen on an earlier record changes none of
\* sum, values_found, min, max and their exemplars, and every distinct key
\* contributes at most one value to the aggregate.
C2_DuplicateSkipped ==
    /\ [][(InLoop /\ KeyAt(idx).has /\ KeyAt(idx).s \in seen_emp) => AggregatesUnchanged]_vars
    /\ [](salary_values_found <= Cardinality(seen_emp) + Cardinality(KeylessBefore))

C2_Witness ==
    /\ compPc = "returned"
    /\ Len(points) = 3
    /\ KeyAt(1).has /\ KeyAt(3) = KeyAt(1)
    /\ SalaryAt(1).kind = "val" /\ SalaryAt(3).kind = "val" /\ SalaryAt(2).kind = "val"
    /\ KeyAt(2).has /\ KeyAt(2) # KeyAt(1)
    /\ stats.salary_values_found = 2

\* C3: entity_count is the number of distinct dedup keys when some record has
\* a key, and values_found otherwise (then every record with a value counts);
\* the deduplicated flag tells exactly the first case.
C3_EntityCount ==
    compPc = "returned" =>
        IF KeysOfPoints # {}
        THEN /\ stats.employee_count = Cardinality(KeysOfPoints)
             /\ stats.dedup_by_employeeid
        ELSE /\ stats.employee_count = stats.salary_values_found
             /\ stats.employee_count =
                    Cardinality({i \in 1..Len(points) : SalaryAt(i).kind = "val"})
             /\ ~stats.dedup_by_employeeid

C3_Witness ==
    /\ compPc = "returned"
    /\ Len(points) = 3
    /\ KeysOfPoints = {}
    /\ \A i \in 1..3 : SalaryAt(i).kind = "val"
    /\ stats.employee_count = 3
    /\ stats.salary_values_found = 3

\* C4 (as claimed): values_found < entity_count occurs only when no dedup
\* key was observed, and then entity_count = values_found.
C4_ValuesCoverEntities ==
    compPc = "returned" =>
        /\ stats.salary_values_found < stats.employee_count => KeysOfPoints = {}
        /\ KeysOfPoints = {} => stats.employee_count = stats.salary_values_found

\* C5 (as claimed): a record without a derivable value changes neither the
\* sum nor the entity count that divides it.
C5_ValuelessExcluded ==
    [][(InLoop /\ SalaryAt(idx).kind = "none") =>
          /\ salary_sum' = salary_sum
          /\ EmployeeCount(seen_emp', salary_values_found')
                = EmployeeCount(seen_emp, salary_values_found)]_vars

\* C6: the average is sum / entity_count when entity_count > 0 and 0 when it
\* is 0; the division never fails, so the function raises only inside the loop.
C6_Average ==
    /\ compPc = "returned" =>
          /\ ~stats.avg_salary.err
          /\ stats.avg_salary.den > 0
          /\ GCD(stats.avg_salary.num, stats.avg_salary.den) = 1
          /\ IF stats.employee_count > 0
             THEN stats.avg_salary.num * stats.employee_count
                     = stats.total_salary * stats.avg_salary.den
             ELSE stats.avg_salary.num = 0
    /\ compPc = "raised" => idx <= Len(points)

C6_Witness ==
    /\ compPc = "returned"
    /\ stats.employee_count = 3
    /\ stats.salary_values_found = 3
    /\ stats.total_salary = 5000
    /\ stats.avg_salary = [err |-> FALSE, num |-> 5000, den |-> 3]

\* C7: when every record carries a dedup key and the keys are pairwise
\* distinct, entity_count is the number of records, in whatever order the
\* records come.
C7_UniqueKeys ==
    (/\ compPc = "returned"
     /\ \A i \in 1..Len(points) : KeyAt(i).has
     /\ \A i, j \in 1..Len(points) : i # j => KeyAt(i) # KeyAt(j))
        => stats.employee_count = Len(points)

C7_Witness ==
    /\ compPc = "returned"
    /\ Len(points) = 3
    /\ KeyAt(1).s = <<"3">> /\ KeyAt(2).s = <<"1">> /\ KeyAt(3).s = <<"2">>
    /\ stats.employee_count = 3

ExampleCorpus ==
    LET one == Point(0, MkPayload("EMPLOYEEID" :> Str(<<"1">>) @@ "BASICSALARY" :> Num(1000)))
        two == Point(0, MkPayload("EMPLOYEEID" :> Str(<<"2">>) @@ "BASICSALARY" :> Num(3000)))
    IN  <<one, one, two>>

\* C8: the corpus (id 1, 1000), (id 1, 1000), (id 2, 3000) gives entity_count 2,
\* sum 4000, average 2000, max 3000 of id 2 and min 1000 of id 1.
C8_Example ==
    points = ExampleCorpus =>
        /\ compPc # "raised"
        /\ compPc = "returned" =>
              /\ stats.employee_count = 2
              /\ stats.total_salary = 4000
              /\ stats.avg_salary = [err |-> FALSE, num |-> 2000, den |-> 1]
              /\ stats.max_salary = SomeFloat(3000)
              /\ stats.max_salary_employee.EMPLOYEEID = SomeStr(<<"2">>)
              /\ stats.min_salary = SomeFloat(1000)
              /\ stats.min_salary_employee.EMPLOYEEID = SomeStr(<<"1">>)

C8_Witness == points = ExampleCorpus /\ compPc = "returned" /\ stats.employee_count = 2

(***************************************************************************)
(* Properties of the corpus scanner.                                       *)
(***************************************************************************)
\* every response so far is the one a store with well-formed cursors gives
WellFormedStore ==
    \A i \in 1..Len(exchanges) : exchanges[i].got = WellFormedResponse(exchanges[i].sent)

\* C9 (as claimed): against a well-formed store the scan of N points with page
\* size B issues at most ceil(N/B) page requests and returns the N points.
C9_ScanWithinCeil ==
    (scanPc = "returned" /\ WellFormedStore) =>
        /\ requests <= CeilDiv(Len(corpus), batch_size)
        /\ all_points = corpus

\* C9 (amended): against a well-formed store the scan of N points with page
\* size B issues at most max(1, ceil(N/B)) page requests and returns exactly
\* the N points, each once, in scroll order.
C9_ScanComplete ==
    /\ (scanPc = "returned" /\ WellFormedStore) =>
          /\ requests <= Max(1, CeilDiv(Len(corpus), batch_size))
          /\ all_points = corpus
    /\ (scanPc = "loop" /\ WellFormedStore) =>
          requests < Max(1, CeilDiv(Len(corpus), batch_size))

C9_Witness ==
    /\ scanPc = "returned"
    /\ WellFormedStore
    /\ Len(corpus) = 3
    /\ batch_size = 2
    /\ requests = 2
    /\ all_points = corpus

\* the response ends the scan: its cursor is empty or absent, or its page
\* holds no record
EndsScan(e) ==
    \/ e.got.next_page_offset \in {PyNone, Str(<<>>), Num(0)}
    \/ Len(e.got.points) = 0

\* C10: the loop stops right after the first response whose cursor is empty or
\* absent or whose page is empty, and issues no request after it; after any
\* other response it is back at the top of the loop, about to post a request.
C10_StopsAtFirstEnd ==
    /\ [](scanPc = "returned" =>
            /\ Len(exchanges) = requests
            /\ requests >= 1
            /\ EndsScan(exchanges[requests])
            /\ \A i \in 1..(requests - 1) : ~EndsScan(exchanges[i]))
    /\ [](scanPc \in {"loop", "waiting"} =>
            \A i \in 1..Len(exchanges) : ~EndsScan(exchanges[i]))
    /\ [][scanPc = "returned" => (requests' = requests /\ scanPc' = "returned")]_vars
    /\ [][(scanPc = "waiting" /\ scanPc' # "raised") =>
             (scanPc' = "loop" <=> ~EndsScan(exchanges'[Len(exchanges')]))]_vars

C10_Witness ==
    /\ scanPc = "returned"
    /\ requests = 2
    /\ exchanges[1].got.points # <<>> /\ exchanges[1].got.next_page_offset = Num(2)
    /\ exchanges[2].got.points = <<>> /\ exchanges[2].got.next_page_offset = Num(2)

RECURSIVE PagesUpTo(_)
\* the points of the first k pages received, in request order
PagesUpTo(k) == IF k = 0 THEN <<>> ELSE PagesUpTo(k - 1) \o exchanges[k].got.points

\* the body the i-th page request must carry: no cursor on the first, the
\* cursor of the response before it on every later one
ExpectedRequest(i) ==
    IF i = 1
    THEN [limit |-> batch_size, has_offset |-> FALSE, offset |-> PyNone]
    ELSE [limit |-> batch_size, has_offset |-> TRUE,
          offset |-> exchanges[i - 1].got.next_page_offset]

\* C11: page requests are strictly sequential: the first carries no cursor,
\* every later one carries exactly the cursor of the response just before it,
\* at most one request is outstanding, and the points accumulated are the
\* pages concatenated in request order.
C11_Sequential ==
    /\ \A i \in 1..Len(exchanges) : exchanges[i].sent = ExpectedRequest(i)
    /\ scanPc \in {"waiting", "raised"} =>
          /\ requests = Len(exchanges) + 1
          /\ request = ExpectedRequest(requests)
    /\ scanPc \in {"loop", "returned"} => requests = Len(exchanges)
    /\ all_points = PagesUpTo(Len(exchanges))

C11_Witness ==
    /\ scanPc = "returned"
    /\ requests = 3
    /\ exchanges[1].sent.has_offset = FALSE
    /\ exchanges[1].got.next_page_offset = Num(2)
    /\ exchanges[2].sent.offset = Num(2)
    /\ exchanges[2].got.next_page_offset = Num(3)
    /\ exchanges[3].sent.offset = Num(3)
    /\ all_points = corpus
    /\ Len(corpus) = 3

\* C12 (as claimed): with max_points set, against a well-formed store holding
\* N points, the capped scan returns exactly the first min(N, max_points)
\* points, never more than max_points, and posts no page request once the
\* points accumulated have reached max_points.
C12_CappedPrefix ==
    /\ []((scanPc = "returned" /\ max_points.tag = "num" /\ WellFormedStore) =>
             /\ all_points = SubSeq(corpus, 1, Max(0, Min(Len(corpus), max_points.n)))
             /\ Len(all_points) <= max_points.n)
    /\ [][(max_points.tag = "num" /\ requests' = requests + 1) =>
             Len(all_points) < max_points.n]_vars

\* C13 (as claimed): whatever cursors and pages the store sends, the number of
\* page requests of one full scan is bounded by the size of the corpus (one
\* request being allowed for an empty corpus).
C13_RequestsBoundedByCorpus == requests <= Max(1, Len(corpus))

(***************************************************************************)
(* Properties of the answer synthesis.                                     *)
(***************************************************************************)
\* api_ask answered a question it classified as aggregation
AnsweredAggregation == askPc = "done" /\ response.status = 200 /\ response.has_math

\* C1: for an aggregation question, whatever the generation service returns,
\* the answer starts with the numeric statement rendered from the computed
\* stats for the selected op, the very statement put in the generation prompt.
C1_StatementIsPrefix ==
    /\ AnsweredAggregation =>
          LET statement == MathAnswer(PickMathOp(question), stats)
              n == Len(statement)
          IN  /\ n > 0
              /\ Len(response.answer) >= n
              /\ SubSeq(response.answer, 1, n) = statement
              /\ SubSeq(rag_prompt, 4, n + 3) = statement
              /\ response.math.stats = stats
    /\ (askPc = "done" /\ response.status = 200) =>
          (response.has_math <=> LooksLikeGlobalAggregation(question))

C1_Witness ==
    /\ AnsweredAggregation
    /\ op = "total_salary"
    /\ stats.total_salary = 4000
    /\ math_answer = <<"Total basic salary (ALL employees) = ", "4", "0", "0", "0", ".", "0">>
    /\ response.answer = math_answer \o <<"\n\nExplanation/examples (Top-", "2", "):\n",
                                          "Total basic salary (ALL employees) = ", "9", ".", "0">>

(***************************************************************************)
(* Properties of the intent classifier.                                    *)
(***************************************************************************)
\* the text holds the lower-case word, letters compared without case
HasKeyword(text, word) ==
    \E j \in 1..(Len(text) - Len(word) + 1) :
        \A i \in 1..Len(word) : LowerOf(text[j + i - 1]) = word[i]

HasAnyKeyword(text, words) == \E k \in 1..Len(words) : HasKeyword(text, words[k])

KeywordGroups ==
    << [op |-> "max_salary", words |-> <<<<"m", "a", "x">>, <<"m", "a", "x", "i", "m", "u", "m">>, <<"h", "i", "g", "h", "e", "s", "t">>>>],
       [op |-> "min_salary", words |-> <<<<"m", "i", "n">>, <<"m", "i", "n", "i", "m", "u", "m">>, <<"l", "o", "w", "e", "s", "t">>>>],
       [op |-> "total_salary", words |-> <<<<"t", "o", "t", "a", "l">>, <<"s", "u", "m">>>>],
       [op |-> "avg_salary", words |-> <<<<"a", "v", "e", "r", "a", "g", "e">>, <<"a", "v", "g">>, <<"m", "e", "a", "n">>>>],
       [op |-> "count_employees", words |-> <<<<"c", "o", "u", "n", "t">>>>] >>

\* the groups with a keyword in the text
GroupsPresent(text) ==
    {g \in 1..Len(KeywordGroups) : HasAnyKeyword(text, KeywordGroups[g].words)}

\* the op of the first group with a keyword in the text, FullStats if none
FirstGroupOp(text) ==
    IF GroupsPresent(text) = {} THEN "salary_stats"
    ELSE KeywordGroups[CHOOSE g \in GroupsPresent(text) :
                           \A h \in GroupsPresent(text) : g <= h].op

\* C15 (as claimed): for a question classified as aggregation the op is that
\* of the first group, in the order max, min, total, average, count, with a
\* keyword in the question, and salary_stats only when no group has one.
C15_FirstGroupWins ==
    \A e \in 1..Len(evaluations) :
        evaluations[e].aggregation => evaluations[e].op = FirstGroupOp(question)

\* C16: every evaluation of the classifier on one question gives the same
\* result, and a question with a max keyword, an average keyword and
\* 'salary' is classified as aggregation with op max_salary every time.
C16_MaxOverAverage ==
    /\ \A e, f \in 1..Len(evaluations) : evaluations[e] = evaluations[f]
    /\ \A e \in 1..Len(evaluations) :
          (/\ HasAnyKeyword(question, KeywordGroups[1].words)
           /\ HasAnyKeyword(question, KeywordGroups[4].words)
           /\ HasKeyword(question, <<"s", "a", "l", "a", "r", "y">>))
             => evaluations[e] = [aggregation |-> TRUE, op |-> "max_salary"]

C16_Witness ==
    /\ question = ExampleQuestion
    /\ Len(evaluations) >= 2
    /\ evaluations[1] = [aggregation |-> TRUE, op |-> "max_salary"]
    /\ evaluations[2] = evaluations[1]

(***************************************************************************)
(* Properties of the pipeline of api_ask and api_math.                     *)
(***************************************************************************)
\* C17: in an api_ask request no scroll, count, embedding, search or
\* generation call is issued before the question is classified; the first call
\* is the scroll on the aggregation path and the embedding on the semantic one.
C17_ClassifyFirst ==
    /\ [][(body.path = "ask" /\ calls' # calls) =>
             (intent \in {"aggregation", "semantic"} /\ intent' = intent)]_vars
    /\ []((body.path = "ask" /\ calls # <<>>) =>
             /\ intent = IF LooksLikeGlobalAggregation(question)
                         THEN "aggregation" ELSE "semantic"
             /\ calls[1] = IF intent = "aggregation" THEN "scroll" ELSE "embed")

C17_Witness ==
    /\ body.path = "ask"
    /\ askPc = "done"
    /\ intent = "aggregation"
    /\ calls = <<"scroll", "count", "embed", "search", "generate">>
    /\ response.status = 200

\* the question of the request is missing, null, empty or blank
BlankQuestion(b) ==
    /\ PickedQuestion(b).tag = "str"
    /\ Strip(PickedQuestion(b).s) = <<>>

C20_OneFailureKind ==
    (body.path = "ask" /\ failed # NoFailure /\ askPc = "done") =>
        response = ErrorResponse(502, "Upstream request failed")

\* C21: for every payload, malformed ones included (a candidate key holding a
\* non-numeric or null value, a 'prompt' that is not a string, no payload at
\* all), key, value and name extraction return without raising, so the
\* aggregation never ends by an exception of an extractor.
C21_ExtractionNeverRaises ==
    /\ compPc # "raised"
    /\ \A i \in 1..(idx - 1) :
          /\ SalaryAt(i).kind # "raise"
          /\ ExtractName(PayloadOf(points[i])).kind # "raise"

(***************************************************************************)
(* Aggregation requests served at the same time.  Each request runs the    *)
(* scroll and _compute_salary_stats_from_points on the locals of its own   *)
(* call; the collection does not change while they run.                    *)
(***************************************************************************)
MaxWorkers == 2

WorkerOps == {"avg_salary", "max_salary"}

WorkerPayloads ==
    { MkPayload("EMPLOYEEID" :> Str(<<"1">>) @@ "BASICSALARY" :> Num(1000)),
      MkPayload("EMPLOYEEID" :> Str(<<"2">>) @@ "BASICSALARY" :> Num(3000)
                @@ "EMPLOYEENAME" :> Str(<<"B", "o">>)),
      MkPayload("EMPLOYEEID" :> Str(<<"1">>)) }

WorkerCorpora ==
    {[i \in 1..Len(pls) |-> Point(i, pls[i])] : pls \in SeqsUpTo(WorkerPayloads, MaxCorpus)}

\* the locals of one request when its scroll starts
WorkerInit(o) ==
    [pc |-> "scan", op |-> o, all_points |-> <<>>, offset |-> PyNone, idx |-> 1,
     seen_emp |-> {}, salary_sum |-> 0, salary_values_found |-> 0,
     min_salary |-> NoFloat, max_salary |-> NoFloat, min_emp |-> NoEmp, max_emp |-> NoEmp,
     stats |-> NoStats, math_answer |-> <<>>]

\* mutated: one set at module level, shared by the requests
SeenByShared(ws, r) == UNION {ws[q].seen_emp : q \in DOMAIN ws}

\* seen_emp = set() inside the call: the set request r reads and writes
SeenBy(ws, r) == ws[r].seen_emp

\* one page of the scroll of request r
WorkerPage(ws, r) ==
    LET l == ws[r]
        resp == WellFormedResponse(RequestBody(batch_size, l.offset))
    IN  [l EXCEPT !.all_points = @ \o resp.points,
                  !.offset = resp.next_page_offset,
                  !.pc = IF ScanStops(resp.next_page_offset, resp.points)
                         THEN "loop" ELSE "scan"]

\* one iteration of the loop of request r
WorkerIterate(ws, r) ==
    LET l == ws[r]
        pl == PayloadOf(l.all_points[l.idx])
        emp_id == EmployeeKey(pl)
        seen == SeenBy(ws, r)
        sal == ExtractSalary(pl)
        emp_name == ExtractName(pl)
        marked == [l EXCEPT !.seen_emp = MarkSeen(emp_id, seen)]
    IN  IF IsDuplicate(emp_id, seen) THEN [l EXCEPT !.idx = @ + 1]
        ELSE IF sal.kind = "raise" \/ (sal.kind = "val" /\ emp_name.kind = "raise")
        THEN [marked EXCEPT !.pc = "raised"]
        ELSE IF sal.kind = "none" THEN [marked EXCEPT !.idx = @ + 1]
        ELSE [marked EXCEPT
                 !.idx = @ + 1,
                 !.salary_sum = @ + sal.v,
                 !.salary_values_found = @ + 1,
                 !.min_salary = IF ReplacesMin(sal.v, @) THEN SomeFloat(sal.v) ELSE @,
                 !.min_emp = IF ReplacesMin(sal.v, l.min_salary)
                             THEN Emp(emp_id, emp_name.s, sal.v) ELSE @,
                 !.max_salary = IF ReplacesMax(sal.v, @) THEN SomeFloat(sal.v) ELSE @,
                 !.max_emp = IF ReplacesMax(sal.v, l.max_salary)
                             THEN Emp(emp_id, emp_name.s, sal.v) ELSE @]

\* the dict of request r and the numeric statement made from it
WorkerFinish(ws, r) ==
    LET l == ws[r]
        seen == SeenBy(ws, r)
        employee_count == EmployeeCount(seen, l.salary_values_found)
        st == [employee_count |-> employee_count,
               salary_values_found |-> l.salary_values_found,
               total_salary |-> l.salary_sum,
               avg_salary |-> AvgSalary(l.salary_sum, employee_count),
               min_salary |-> l.min_salary,
               max_salary |-> l.max_salary,
               min_salary_employee |-> l.min_emp,
               max_salary_employee |-> l.max_emp,
               dedup_by_employeeid |-> seen # {}]
    IN  [l EXCEPT !.stats = st, !.math_answer = MathAnswer(l.op, st), !.pc = "returned"]

\* MaxWorkers requests arrive together
InitWorkers ==
    /\ corpus \in WorkerCorpora
    /\ workers \in [1..MaxWorkers -> {WorkerInit(o) : o \in WorkerOps}]
    /\ batch_size = ScrollBatch
    /\ max_points = PyNone
    /\ scanPc = "idle"
    /\ ScanLocalsInit
    /\ AggIdle
    /\ AskIdle
    /\ HelperIdle

WorkerUnchanged ==
    UNCHANGED <<aggVars, scanVars, askVars, calls, failed, evaluations, helperVars>>

\* request r receives a page
WorkerScroll(r) ==
    /\ workers[r].pc = "scan"
    /\ workers' = [workers EXCEPT ![r] = WorkerPage(workers, r)]
    /\ WorkerUnchanged

\* request r handles the record at its loop position
WorkerStep(r) ==
    /\ workers[r].pc = "loop"
    /\ workers[r].idx <= Len(workers[r].all_points)
    /\ workers' = [workers EXCEPT ![r] = WorkerIterate(workers, r)]
    /\ WorkerUnchanged

\* request r leaves the loop and builds its statement
WorkerReturn(r) ==
    /\ workers[r].pc = "loop"
    /\ workers[r].idx > Len(workers[r].all_points)
    /\ workers' = [workers EXCEPT ![r] = WorkerFinish(workers, r)]
    /\ WorkerUnchanged

NextWorkers ==
    \E r \in 1..MaxWorkers :
        \/ WorkerScroll(r)
        \/ WorkerStep(r)
        \/ WorkerReturn(r)

SpecWorkers == InitWorkers /\ [][NextWorkers]_vars

RECURSIVE RunAlone(_)
\* the locals of a request that runs with no other request beside it
RunAlone(ws) ==
    IF ws[1].pc = "scan" THEN RunAlone(<<WorkerPage(ws, 1)>>)
    ELSE IF ws[1].pc = "loop" /\ ws[1].idx <= Len(ws[1].all_points)
    THEN RunAlone(<<WorkerIterate(ws, 1)>>)
    ELSE IF ws[1].pc = "loop" THEN WorkerFinish(ws, 1)
    ELSE ws[1]

\* C22: for any interleaving of the steps of concurrent aggregation requests
\* over an unchanged corpus, each request returns the stats and the numeric
\* statement it returns when it runs alone on that corpus.
C22_IsolatedRequests ==
    \A r \in DOMAIN workers :
        workers[r].pc \in {"returned", "raised"} =>
            LET alone == RunAlone(<<WorkerInit(workers[r].op)>>)
            IN  /\ workers[r].pc = alone.pc
                /\ workers[r].stats = alone.stats
                /\ workers[r].math_answer = alone.math_answer

\* one request has returned its statement while the other is inside its
\* loop with a key already seen
C22_Witness ==
    /\ Len(corpus) = 3
    /\ \E r, q \in DOMAIN workers :
          /\ r # q
          /\ workers[r].pc = "returned"
          /\ workers[r].stats.employee_count = 2
          /\ workers[r].stats.salary_values_found = 2
          /\ workers[q].pc = "loop"
          /\ workers[q].idx = 2
          /\ workers[q].seen_emp # {}

RagCalls == <<"embed", "search", "generate">>

\* C23: for a question that is not an aggregation question api_ask issues no
\* scroll and no count; it issues one embedding, then one search, then one
\* generation, in that order, and answers with the generator's output alone,
\* without a numeric statement.
C23_SemanticPath ==
    (body.path = "ask" /\ ~LooksLikeGlobalAggregation(question)) =>
        /\ Len(calls) <= Len(RagCalls)
        /\ calls = SubSeq(RagCalls, 1, Len(calls))
        /\ scanPc = "idle" /\ requests = 0 /\ compPc = "idle"
        /\ math_answer = <<>>
        /\ (askPc = "done" /\ response.status = 200) =>
              /\ calls = RagCalls
              /\ response.answer \in {Strip(content) : content \in GenOutputs}
              /\ ~response.has_math
              /\ response.math = NoMath
              /\ response.auto_flow = "RAG_ONLY"
              /\ response.sources = sources

C23_Witness ==
    /\ body.path = "ask"
    /\ question = <<"w", "h", "o", " ", "i", "s", " ", "A", "l">>
    /\ askPc = "done"
    /\ response.status = 200
    /\ calls = RagCalls
    /\ response.answer # <<>>
    /\ Len(response.sources) = 2

(***************************************************************************)
(* A direct call of _dedupe_hits on any bounded list of hits.              *)
(***************************************************************************)
MaxHits == 3

InitDedupe ==
    /\ hits_in \in SeqsUpTo({HitList[j] : j \in 1..Len(HitList)}, MaxHits)
    /\ hits_out = <<>>
    /\ salary_payload = EmptyPayload
    /\ salary_result = SalUnset
    /\ callPc = "call"
    /\ AggIdle
    /\ ScanIdle
    /\ AskIdle
    /\ WorkersIdle

\* out = _dedupe_hits(hits)
DedupeCall ==
    /\ callPc = "call"
    /\ hits_out' = DedupeHits(hits_in)
    /\ callPc' = "returned"
    /\ UNCHANGED <<hits_in, salary_payload, salary_result>>
    /\ UNCHANGED <<aggVars, scanVars, askVars, calls, failed, evaluations, workers>>

NextDedupe == DedupeCall

SpecDedupe == InitDedupe /\ [][NextDedupe]_vars

\* the first 220 characters of the display text of a hit
TextPrefix(h) ==
    [j \in 1..Min(DedupePrefixLen, Len(HitText(h))) |-> HitText(h)[j]]

\* the positions of the input a first-occurrence filter keeps
FirstOccurrences ==
    {j \in 1..Len(hits_in) :
        /\ HitText(hits_in[j]) # <<>>
        /\ \A i \in 1..(j - 1) : TextPrefix(hits_in[i]) # TextPrefix(hits_in[j])}

\* the k-th smallest position of S
NthOf(S, k) == CHOOSE j \in S : Cardinality({i \in S : i <= j}) = k

\* C24: _dedupe_hits returns the hits of its input, in input order, whose
\* display text is non-empty and whose 220-character prefix no earlier hit
\* of the input has; no two returned hits share a prefix.
C24_FirstOccurrenceKept ==
    callPc = "returned" =>
        /\ Len(hits_out) = Cardinality(FirstOccurrences)
        /\ \A k \in 1..Len(hits_out) : hits_out[k] = hits_in[NthOf(FirstOccurrences, k)]
        /\ \A a, b \in 1..Len(hits_out) :
              a # b => TextPrefix(hits_out[a]) # TextPrefix(hits_out[b])

\* two texts that differ only after the 220th character, a hit without
\* payload between them
C24_Witness ==
    /\ callPc = "returned"
    /\ Len(hits_in) = 3
    /\ hits_in[1].id = 15 /\ hits_in[2].id = 14 /\ hits_in[3].id = 16
    /\ hits_out = <<hits_in[1]>>

\* the search of the request has answered and the context is built
ContextBuilt ==
    /\ body.path = "ask"
    /\ \/ askPc = "generate"
       \/ askPc = "done" /\ calls # <<>> /\ calls[Len(calls)] = "generate"

\* the display text of the retrieved hit a sources entry names
TextOfSource(src) ==
    HitText(CHOOSE h \in {hits_in[j] : j \in 1..Len(hits_in)} : h.id = src.id)

\* the context whose blocks are labelled 1..n and show the hits of sources
NumberedContext ==
    Join(<<"\n", "\n">>,
         [i \in 1..Len(sources) |->
             <<"[">> \o IntToStr(i) \o <<"]", " ">> \o TextOfSource(sources[i])])

\* C25: on both paths of api_ask the sources list has one {id, score} entry
\* per context block of the generation prompt, in the same order and at most
\* top_k of them; the blocks are labelled 1..n and block i shows the hit of
\* sources entry i.
C25_SourcesMatchContext ==
    ContextBuilt =>
        /\ Len(sources) <= top_k
        /\ \A i \in 1..Len(sources) :
              \E j \in 1..Len(hits_in) :
                  /\ sources[i] = [id |-> hits_in[j].id, score |-> hits_in[j].score]
                  /\ TextOfSource(sources[i]) # <<>>
        /\ \A i, k \in 1..Len(sources) : i < k => sources[i].score >= sources[k].score
        /\ rag_prompt = IF op # ""
                        THEN MathPrompt(math_answer, NumberedContext, question)
                        ELSE RagPrompt(NumberedContext, question)
        /\ (askPc = "done" /\ response.status = 200) => response.sources = sources

\* on the aggregation path a hit without text was retrieved ahead of a hit
\* with text
C25_Witness ==
    /\ ContextBuilt
    /\ askPc = "done"
    /\ response.status = 200
    /\ op # ""
    /\ Len(hits_in) = 2
    /\ hits_in[1].id = 14
    /\ Len(response.sources) = 1

(***************************************************************************)
(* Further properties of the aggregation engine.                           *)
(***************************************************************************)
NameAt(i) == ExtractName(PayloadOf(points[i]))

\* an earlier record of the argument carries the dedup key of record i
SameKeyBefore(i) == KeyAt(i).has /\ \E j \in 1..(i - 1) : KeyAt(j) = KeyAt(i)

\* the records that reach the sum: first of their key, or keyless, with a value
CountedRecords ==
    {i \in 1..Len(points) : ~SameKeyBefore(i) /\ SalaryAt(i).kind = "val"}

\* the first counted record whose value no counted record is below
FirstLowest ==
    CHOOSE i \in CountedRecords :
        \A j \in CountedRecords :
            SalaryAt(i).v < SalaryAt(j).v \/ (SalaryAt(i).v = SalaryAt(j).v /\ i <= j)

\* the first counted record whose value no counted record is above
FirstHighest ==
    CHOOSE i \in CountedRecords :
        \A j \in CountedRecords :
            SalaryAt(i).v > SalaryAt(j).v \/ (SalaryAt(i).v = SalaryAt(j).v /\ i <= j)

ExemplarAt(i) == Emp(KeyAt(i), NameAt(i).s, SalaryAt(i).v)

\* C26: the min and the max returned, and their exemplars, are those of the
\* first counted record that attains the value; a later counted record with
\* an equal value replaces neither the value nor the exemplar.
C26_FirstAttainerKept ==
    (compPc = "returned" /\ CountedRecords # {}) =>
        /\ stats.min_salary = SomeFloat(SalaryAt(FirstLowest).v)
        /\ stats.min_salary_employee = ExemplarAt(FirstLowest)
        /\ stats.max_salary = SomeFloat(SalaryAt(FirstHighest).v)
        /\ stats.max_salary_employee = ExemplarAt(FirstHighest)

\* three counted records of distinct identity with the same value
C26_Witness ==
    /\ compPc = "returned"
    /\ Len(points) = 3
    /\ CountedRecords = {1, 2, 3}
    /\ \A i \in 1..3 : SalaryAt(i).v = 1000
    /\ ExemplarAt(1) # ExemplarAt(2) /\ ExemplarAt(2) # ExemplarAt(3)
    /\ stats.min_salary_employee = ExemplarAt(1)
    /\ stats.max_salary_employee = ExemplarAt(1)

RECURSIVE SumOfValues(_)
\* the sum of the values of the records at the positions S
SumOfValues(S) ==
    IF S = {} THEN 0
    ELSE LET i == CHOOSE j \in S : TRUE
         IN  SalaryAt(i).v + SumOfValues(S \ {i})

\* the keys whose first record carries no derivable value
ValuelessFirstKeys ==
    {KeyAt(i).s : i \in {j \in 1..Len(points) :
                            KeyAt(j).has /\ ~SameKeyBefore(j) /\ SalaryAt(j).kind = "none"}}

\* the records of the argument that carry the key k
RecordsOfKey(k) == {i \in 1..Len(points) : KeyAt(i).has /\ KeyAt(i).s = k}

\* the sum of the values of all records but those of the keys in K
SumWithoutKeys(K) ==
    SumOfValues({i \in CountedRecords : ~(KeyAt(i).has /\ KeyAt(i).s \in K)})

\* C27: the key of a record is marked seen before its value is extracted:
\* when the first record of a key has no derivable value, the later records
\* of that key are skipped even if they carry a valid value, so the key adds
\* nothing to sum, values_found, min and max, and still counts as an entity.
C27_ValuelessFirstShadows ==
    /\ [][(InLoop /\ KeyAt(idx).has /\ ~SameKeyBefore(idx) /\ SalaryAt(idx).kind = "none") =>
             (KeyAt(idx).s \in seen_emp' /\ AggregatesUnchanged)]_vars
    /\ [][(InLoop /\ KeyAt(idx).has /\ KeyAt(idx).s \in ValuelessFirstKeys
                  /\ SameKeyBefore(idx)) =>
             (AggregatesUnchanged /\ seen_emp' = seen_emp)]_vars
    /\ []((compPc = "returned" /\ ValuelessFirstKeys # {}) =>
             /\ ValuelessFirstKeys \subseteq seen_emp
             /\ stats.employee_count = Cardinality(KeysOfPoints)
             /\ stats.total_salary = SumWithoutKeys(ValuelessFirstKeys)
             /\ stats.salary_values_found =
                   Cardinality({i \in CountedRecords :
                                   ~(KeyAt(i).has /\ KeyAt(i).s \in ValuelessFirstKeys)})
             /\ \A e \in {stats.min_salary_employee, stats.max_salary_employee} :
                   (e.has /\ e.EMPLOYEEID.has) => e.EMPLOYEEID.s \notin ValuelessFirstKeys)

\* a key whose first record has no value and whose later record has one
C27_Witness ==
    /\ compPc = "returned"
    /\ Len(points) = 3
    /\ KeyAt(1).has /\ SalaryAt(1).kind = "none"
    /\ KeyAt(3) = KeyAt(1) /\ SalaryAt(3).kind = "val"
    /\ KeyAt(2).has /\ KeyAt(2) # KeyAt(1) /\ SalaryAt(2).kind = "val"
    /\ stats.employee_count = 2
    /\ stats.salary_values_found = 1
    /\ stats.total_salary = SalaryAt(2).v

(***************************************************************************)
(* A direct call of _extract_salary on any payload of a bounded family:    *)
(* each candidate key is absent, null, blank, not a number, a number, or   *)
(* a number written with a thousands separator; the free text is absent,   *)
(* null, without a token, with a token, or not a string.                   *)
(***************************************************************************)
CandidateValues(j) ==
    { Absent, PyNone, Str(<<" ">>), Str(<<"a", "b", "c">>), Num(j * 1000),
      Str(<<" ">> \o IntToStr(j) \o <<",", "0", "0", "0">>) }

PromptValues ==
    { Absent, PyNone, Num(7),
      Str(<<"p", "a", "y", " ", "9", "0", "0", "0">>),
      Str(<<"b", "a", "s", "i", "c", "s", "a", "l", "a", "r", "y", " ", ":", " ",
            "9", "0", "0", "0", " ", "|">>) }

\* the payload whose j-th candidate key holds vals[j] and whose free text is txt
SalaryPayload(vals, txt) ==
    [k \in PayloadKeys |->
        IF k = "prompt" THEN txt
        ELSE IF \E j \in 1..Len(SalaryKeys) : SalaryKeys[j] = k
        THEN vals[CHOOSE j \in 1..Len(SalaryKeys) : SalaryKeys[j] = k]
        ELSE Absent]

SalaryPayloads ==
    {SalaryPayload(vals, txt) :
        vals \in {f \in [1..Len(SalaryKeys) ->
                            UNION {CandidateValues(j) : j \in 1..Len(SalaryKeys)}] :
                     \A j \in 1..Len(SalaryKeys) : f[j] \in CandidateValues(j)},
        txt \in PromptValues}

InitExtract ==
    /\ salary_payload \in SalaryPayloads
    /\ salary_result = SalUnset
    /\ hits_in = <<>>
    /\ hits_out = <<>>
    /\ callPc = "call"
    /\ AggIdle
    /\ ScanIdle
    /\ AskIdle
    /\ WorkersIdle

\* sal = _extract_salary(payload)
ExtractCall ==
    /\ callPc = "call"
    /\ salary_result' = ExtractSalary(salary_payload)
    /\ callPc' = "returned"
    /\ UNCHANGED <<salary_payload, hits_in, hits_out>>
    /\ UNCHANGED <<aggVars, scanVars, askVars, calls, failed, evaluations, workers>>

NextExtract == ExtractCall

SpecExtract == InitExtract /\ [][NextExtract]_vars

\* the number a candidate value stands for, if it is present, non-blank and
\* parses once commas and surrounding blanks are removed
CandidateNumber(v) ==
    IF v.tag = "absent" \/ Strip(PyStr(v)) = <<>> THEN [ok |-> FALSE, v |-> 0]
    ELSE PyFloat(RemoveCommas(PyStr(v)))

\* the candidate keys of the payload that yield a number, by position
YieldingCandidates ==
    {j \in 1..Len(SalaryKeys) : CandidateNumber(salary_payload[SalaryKeys[j]]).ok}

\* the KEY: value token of the free text, if the text is a string holding one
PromptToken ==
    IF Truthy(Get(salary_payload, "prompt")) /\ Get(salary_payload, "prompt").tag = "str"
    THEN SalaryReSearch(Get(salary_payload, "prompt").s)
    ELSE [ok |-> FALSE, g |-> <<>>]

\* what the rule of the first yielding candidate, then the token, then None gives
ExpectedSalary ==
    IF YieldingCandidates # {}
    THEN LET first == CHOOSE j \in YieldingCandidates : \A k \in YieldingCandidates : j <= k
         IN  SalVal(CandidateNumber(salary_payload[SalaryKeys[first]]).v)
    ELSE IF PromptToken.ok /\ PyFloat(PromptToken.g).ok
    THEN SalVal(PyFloat(PromptToken.g).v)
    ELSE SalNone

\* C28: for any payload _extract_salary returns the number of the first
\* candidate key, in the order BASICSALARY, basicSalary, SALARY, salary, that
\* is present, non-blank and parses, whatever the free text says; a candidate
\* that does not parse is passed over; with no such candidate it returns the
\* value of the KEY: value token of the free text, and None without a token.
C28_FirstCandidateWins ==
    callPc = "returned" => salary_result = ExpectedSalary

\* the same rule on the payloads whose free text, if any, is a string
RuleHoldsOnTextPrompts ==
    (callPc = "returned" /\ salary_payload["prompt"].tag # "num") =>
        salary_result = ExpectedSalary

\* the records without a dedup key that carry a derivable value
KeylessValued == {i \in 1..Len(points) : ~KeyAt(i).has /\ SalaryAt(i).kind = "val"}

\* C29: when records with and without a dedup key are mixed, every keyless
\* record with a derivable value is counted (never deduplicated, it adds to
\* sum and values_found) while entity_count is the number of distinct keys;
\* more records than entities may contribute, and the average is the sum
\* divided by the number of distinct keys.
C29_KeylessCountedKeysDivide ==
    /\ [][(InLoop /\ ~KeyAt(idx).has /\ SalaryAt(idx).kind = "val"
                  /\ NameAt(idx).kind = "val") =>
             /\ salary_sum' = salary_sum + SalaryAt(idx).v
             /\ salary_values_found' = salary_values_found + 1
             /\ seen_emp' = seen_emp]_vars
    /\ []((compPc = "returned" /\ KeysOfPoints # {} /\ KeylessValued # {}) =>
             /\ KeylessValued \subseteq CountedRecords
             /\ stats.salary_values_found = Cardinality(CountedRecords)
             /\ stats.total_salary = SumOfValues(CountedRecords)
             /\ stats.employee_count = Cardinality(KeysOfPoints)
             /\ stats.avg_salary = PyDiv(stats.total_salary, Cardinality(KeysOfPoints)))

\* one keyed record and two keyless ones, all with a value: three values
\* over one entity
C29_Witness ==
    /\ compPc = "returned"
    /\ Len(points) = 3
    /\ KeyAt(1).has
    /\ KeylessValued = {2, 3}
    /\ stats.salary_values_found = 3
    /\ stats.employee_count = 1
    /\ stats.avg_salary = PyDiv(stats.total_salary, 1)
    /\ stats.avg_salary.num > stats.max_salary.v

\* min and max are absent exactly when no value was found; otherwise
\* min <= max and the sum is the sum of the counted values
MinMaxSumConsistent ==
    compPc = "returned" =>
        /\ (~stats.min_salary.has /\ ~stats.max_salary.has) <=> stats.salary_values_found = 0
        /\ stats.min_salary.has <=> stats.max_salary.has
        /\ stats.salary_values_found > 0 =>
              /\ stats.min_salary.v <= stats.max_salary.v
              /\ stats.total_salary = SumOfValues(CountedRecords)

\* C30: in the stats returned, min and max are both absent exactly when
\* values_found is 0; when values_found > 0, min <= max, the sum is the sum
\* of the values of the counted records, and the average lies between min
\* and max: min * entity_count <= sum <= max * entity_count.
C30_AverageWithinMinMax ==
    /\ MinMaxSumConsistent
    /\ (compPc = "returned" /\ stats.salary_values_found > 0) =>
          /\ stats.min_salary.v * stats.employee_count <= stats.total_salary
          /\ stats.total_salary <= stats.max_salary.v * stats.employee_count

=============================================================================
